---- MODULE Spec2Model ----
(***************************************************************************)
(* Viona-Pro: organization lifecycle, role resolution and inventory        *)
(* mutations, modelled over the relational tables the server actions use.  *)
(*                                                                         *)
(* The variable db holds every table; every server action is one action   *)
(* of the model: it reads db, runs the handler's checks in the handler's   *)
(* order and either commits the rows it writes or leaves them alone.       *)
(* last is the outcome of the most recent call: the operation, the         *)
(* arguments it was given, whether it returned or threw, and the value or  *)
(* the error.  inflight holds the calls that run next to others: those     *)
(* that have made their checks and reads and have not yet written.         *)
(* cache is the key-value store behind CacheService: the product listings  *)
(* the products route has stored, by organization id.                      *)
(***************************************************************************)
EXTENDS Integers, Sequences, FiniteSets, TLC

VARIABLES db, last, inflight, cache

vars == <<db, last, inflight, cache>>

(***************************************************************************)
(* Bounds of the model.                                                    *)
(***************************************************************************)
MaxOrgs == 2          \* organization ids ever allocated
MaxProducts == 2      \* product ids ever allocated
MaxMovements == 3     \* ledger rows ever written
MaxOrders == 1        \* orders ever placed
MaxQty == 2           \* largest quantity or price a caller passes
MaxInvites == 2       \* invitations ever issued
MaxNow == 36          \* hours the clock runs
MaxPrices == 3        \* price rows ever written

(***************************************************************************)
(* Values.  A JavaScript string that the code trims, lower-cases or parses *)
(* is a sequence of characters; a role is a string the code only compares. *)
(***************************************************************************)
Principals == {"u1", "u2"}

NoPrincipal == "anonymous"   \* auth() returned no userId

JsNull == "<js null>"        \* the JavaScript value null, which is no string

Space == " "

Lower(c) == IF c = "A" THEN "a" ELSE c

IsDigit(c) == c \in {"0", "1", "2", "3", "4", "5", "6", "7", "8", "9"}

DigitVal(c) ==
  CASE c = "0" -> 0 [] c = "1" -> 1 [] c = "2" -> 2 [] c = "3" -> 3
    [] c = "4" -> 4 [] c = "5" -> 5 [] c = "6" -> 6 [] c = "7" -> 7
    [] c = "8" -> 8 [] c = "9" -> 9

RECURSIVE TrimStart(_)
TrimStart(s) ==
  IF s # <<>> /\ Head(s) = Space THEN TrimStart(Tail(s)) ELSE s

RECURSIVE TrimEnd(_)
TrimEnd(s) ==
  IF s # <<>> /\ s[Len(s)] = Space THEN TrimEnd(SubSeq(s, 1, Len(s) - 1)) ELSE s

\* String.prototype.trim
Trim(s) == TrimEnd(TrimStart(s))

\* String.prototype.toLowerCase
ToLowerCase(s) == [i \in 1..Len(s) |-> Lower(s[i])]

\* Prisma's { equals: x, mode: 'insensitive' }
EqualsInsensitive(s, t) == ToLowerCase(s) = ToLowerCase(t)

\* /^\d+$/.test(s)
IsNumeric(s) == s # <<>> /\ \A i \in 1..Len(s) : IsDigit(s[i])

RECURSIVE DigitsValue(_)
DigitsValue(s) ==
  IF s = <<>> THEN 0
  ELSE 10 * DigitsValue(SubSeq(s, 1, Len(s) - 1)) + DigitVal(s[Len(s)])

\* BigInt(s) accepts surrounding white space and the empty string (0n), and
\* throws a SyntaxError ("Cannot convert ... to a BigInt") on anything else.
BigIntOk(s) == Trim(s) = <<>> \/ IsNumeric(Trim(s))

BigInt(s) == DigitsValue(Trim(s))

\* id.toString()
RECURSIVE NatToStr(_)
NatToStr(n) ==
  IF n < 10
  THEN <<CHOOSE c \in {"0", "1", "2", "3", "4", "5", "6", "7", "8", "9"} : DigitVal(c) = n>>
  ELSE Append(NatToStr(n \div 10),
              CHOOSE c \in {"0", "1", "2", "3", "4", "5", "6", "7", "8", "9"} : DigitVal(c) = n % 10)

\* A variant that returns its second argument.
MaxSecond(a, b) == b

Max(a, b) == IF a >= b THEN a ELSE b

\* A variant that keeps the sign.
AbsSigned(a) == a

Abs(a) == IF a >= 0 THEN a ELSE 0 - a

(***************************************************************************)
(* Identity provider: the primary e-mail address Clerk holds for a         *)
(* principal.                                                              *)
(***************************************************************************)
ClerkEmail(uid) ==
  IF uid = "u1" THEN <<"a">> ELSE IF uid = "u2" THEN <<"A">> ELSE <<"b">>

(***************************************************************************)
(* The database.  Every table is a set of rows; ids are auto-incremented   *)
(* and never reused.                                                       *)
(***************************************************************************)
EmptyDb ==
  [ users      |-> {},   \* [user_id, email]
    orgs       |-> {},   \* [org_id, name, created_by]
    members    |-> {},   \* [org_id, user_id, role]
    invites    |-> {},   \* [org_id, email, token, role, status, expires_at]
    warehouses |-> {},   \* [warehouse_id, org_id, name]
    products   |-> {},   \* [product_id, org_id, sku]
    stocks     |-> {},   \* [stock_id, product_id, warehouse_id, quantity]
    prices     |-> {},   \* [price_id, product_id, retail_price, valid_from, valid_to]
    movements  |-> {},   \* [movement_id, product_id, warehouse_id, type, quantity]
    orders     |-> {},   \* [order_id, org_id]
    orderItems |-> {},   \* [order_item_id, order_id, product_id]
    nextId     |-> [ org |-> 1, warehouse |-> 1, product |-> 1, stock |-> 1,
                     price |-> 1, movement |-> 1, order |-> 1, invite |-> 1 ],
    now        |-> 0,
    ledgerFk   |-> "none",    \* what the schema does for the ledger's references
    skuUnique  |-> "none" ]   \* the unique index the schema puts on product SKUs

\* The schema is not part of the sources.  A ledger row names a product and a
\* warehouse and is never deleted: either the database refuses to delete a
\* product or warehouse a ledger row names ("restrict"), or it lets the row
\* dangle ("none").
LedgerFks == {"none", "restrict"}

\* Nor do the sources say whether the schema declares the SKU of a product
\* unique within its organization ("perOrg") or not at all ("none"): the
\* actions look for the SKU themselves and also catch "Unique constraint".
SkuConstraints == {"none", "perOrg"}

\* The rows of the member table for one (organization, user) pair.
MemberRows(d, orgId, uid) ==
  {m \in d.members : m.org_id = orgId /\ m.user_id = uid}

(***************************************************************************)
(* lib/auth.ts                                                             *)
(***************************************************************************)
\* getOrCreateUser: the user row of a principal, created on first sight.
getOrCreateUser(d, uid) ==
  IF \E u \in d.users : u.user_id = uid
  THEN d
  ELSE [d EXCEPT !.users = @ \cup {[user_id |-> uid, email |-> ClerkEmail(uid)]}]

\* A variant of the upsert whose update branch leaves the role alone.
UpsertAdminKeepRole(d, orgId, uid) ==
  IF MemberRows(d, orgId, uid) # {}
  THEN d
  ELSE [d EXCEPT !.members = @ \cup {[org_id |-> orgId, user_id |-> uid, role |-> "admin"]}]

\* organizationMember.upsert on the key (org_id, user_id), role 'admin'.
UpsertAdmin(d, orgId, uid) ==
  [d EXCEPT !.members =
     (@ \ MemberRows(d, orgId, uid))
       \cup {[org_id |-> orgId, user_id |-> uid, role |-> "admin"]}]

\* getUserRole: the role the caller holds in the organization, and the
\* database the call leaves behind.
getUserRole(d, uid, orgIdStr) ==
  IF uid = NoPrincipal THEN [db |-> d, role |-> JsNull]
  ELSE IF ~BigIntOk(orgIdStr) THEN [db |-> d, role |-> JsNull]
  ELSE
    LET bigOrgId == BigInt(orgIdStr)
        d1 == getOrCreateUser(d, uid)
        createdOrg == {o \in d1.orgs : o.org_id = bigOrgId /\ o.created_by = uid}
        member == MemberRows(d1, bigOrgId, uid)
    IN  IF createdOrg # {}
        THEN [db |-> UpsertAdmin(d1, bigOrgId, uid), role |-> "admin"]
        ELSE IF member = {}
             THEN [db |-> d1, role |-> JsNull]
             ELSE LET r == (CHOOSE m \in member : TRUE).role
                  IN  [db |-> d1, role |-> IF r = "" THEN JsNull ELSE r]

\* requiredRoles.includes(role)
Includes(requiredRoles, role) ==
  \E i \in 1..Len(requiredRoles) : requiredRoles[i] = role

\* A variant of hasPermission that sends admin through the membership test.
hasPermissionNoWildcard(role, requiredRoles) ==
  IF role = JsNull \/ role = "null" \/ role = "undefined" \/ role = "" \/ role = "NULL"
  THEN FALSE
  ELSE Includes(requiredRoles, role)

\* hasPermission
hasPermission(role, requiredRoles) ==
  IF role = JsNull \/ role = "null" \/ role = "undefined" \/ role = "" \/ role = "NULL"
  THEN FALSE
  ELSE IF role = "admin" THEN TRUE
  ELSE Includes(requiredRoles, role)

\* A variant of ensureOrganizationMember that lets a non-member through.
ensureOrganizationMemberOpen(d, uid, orgIdStr) ==
  IF uid = NoPrincipal THEN [db |-> d, err |-> "Authentication required"]
  ELSE IF orgIdStr = <<>> \/ Trim(orgIdStr) = <<>> \/ ~IsNumeric(Trim(orgIdStr))
  THEN [db |-> d, err |-> "Invalid organization ID"]
  ELSE
    LET bigOrgId == BigInt(orgIdStr)
        d1 == getOrCreateUser(d, uid)
        orgCheck == {o \in d1.orgs : o.org_id = bigOrgId}
    IN  IF orgCheck = {} THEN [db |-> d1, err |-> "Organization not found"]
        ELSE IF (CHOOSE o \in orgCheck : TRUE).created_by = uid
        THEN [db |-> UpsertAdmin(d1, bigOrgId, uid), err |-> ""]
        ELSE [db |-> d1, err |-> ""]

\* ensureOrganizationMember: err is "" when the call returns, the error
\* otherwise; db is what the call leaves behind either way.
ensureOrganizationMember(d, uid, orgIdStr) ==
  IF uid = NoPrincipal THEN [db |-> d, err |-> "Authentication required"]
  ELSE IF orgIdStr = <<>> \/ Trim(orgIdStr) = <<>> \/ ~IsNumeric(Trim(orgIdStr))
  THEN [db |-> d, err |-> "Invalid organization ID"]
  ELSE
    LET bigOrgId == BigInt(orgIdStr)
        d1 == getOrCreateUser(d, uid)
        orgCheck == {o \in d1.orgs : o.org_id = bigOrgId}
    IN  IF orgCheck = {} THEN [db |-> d1, err |-> "Organization not found"]
        ELSE IF (CHOOSE o \in orgCheck : TRUE).created_by = uid
        THEN [db |-> UpsertAdmin(d1, bigOrgId, uid), err |-> ""]
        ELSE IF MemberRows(d1, bigOrgId, uid) = {}
        THEN [db |-> d1, err |-> "Access denied"]
        ELSE [db |-> d1, err |-> ""]

(***************************************************************************)
(* The calls of lib/auth.ts as actions.                                    *)
(***************************************************************************)
\* The role of the caller's member row, JsNull when there is none.
RowRole(d, uid, orgIdStr) ==
  IF BigIntOk(orgIdStr) /\ MemberRows(d, BigInt(orgIdStr), uid) # {}
  THEN (CHOOSE m \in MemberRows(d, BigInt(orgIdStr), uid) : TRUE).role
  ELSE JsNull

DoGetUserRole(uid, orgIdStr) ==
  LET r == getUserRole(db, uid, orgIdStr)
  IN  /\ db' = r.db
      /\ inflight' = inflight
      /\ cache' = cache
      /\ last' = [op |-> "getUserRole", caller |-> uid, orgId |-> orgIdStr,
                  prior |-> RowRole(db, uid, orgIdStr), ret |-> r.role]

DoEnsureOrganizationMember(uid, orgIdStr) ==
  LET r == ensureOrganizationMember(db, uid, orgIdStr)
  IN  /\ db' = r.db
      /\ inflight' = inflight
      /\ cache' = cache
      /\ last' = [op |-> "ensureOrganizationMember", caller |-> uid,
                  orgId |-> orgIdStr, prior |-> RowRole(db, uid, orgIdStr),
                  ok |-> r.err = "", err |-> r.err]

DoHasPermission(role, requiredRoles) ==
  /\ db' = db
  /\ inflight' = inflight
  /\ cache' = cache
  /\ last' = [op |-> "hasPermission", role |-> role, requiredRoles |-> requiredRoles,
              ret |-> hasPermission(role, requiredRoles)]

(***************************************************************************)
(* Role resolution on its own: the two organizations exist, each created   *)
(* by one principal, and the member table is in any state the unique key   *)
(* (org_id, user_id) allows -- the creator's row absent, or present with   *)
(* any role, as after a partial failure or a write made elsewhere.         *)
(***************************************************************************)
MemberRoles == {"admin", "writer", "reader", "null"}

AuthOrgs ==
  { [org_id |-> 1, name |-> <<"a">>, created_by |-> "u1"],
    [org_id |-> 2, name |-> <<"a">>, created_by |-> "u2"] }

AuthCallers == Principals \cup {NoPrincipal}

OrgIdInputs == {<<"1">>, <<"2">>, <<"3">>, <<"x">>, <<>>}

InitAuth ==
  /\ \E f \in [{1, 2} \X Principals -> MemberRoles \cup {JsNull}] :
        db = [EmptyDb EXCEPT
                !.users = {[user_id |-> u, email |-> ClerkEmail(u)] : u \in Principals},
                !.orgs = AuthOrgs,
                !.members = { [org_id |-> k[1], user_id |-> k[2], role |-> f[k]] :
                              k \in {x \in DOMAIN f : f[x] # JsNull} },
                !.nextId.org = 3]
  /\ last = [op |-> "none"]
  /\ inflight = {}
  /\ cache = {}

NextAuth ==
  \/ \E uid \in AuthCallers, o \in OrgIdInputs : DoGetUserRole(uid, o)
  \/ \E uid \in AuthCallers, o \in OrgIdInputs : DoEnsureOrganizationMember(uid, o)

SpecAuth == InitAuth /\ [][NextAuth]_vars

\* The creator of an organization, JsNull when no such organization exists.
CreatorOf(d, orgIdStr) ==
  IF BigIntOk(orgIdStr) /\ \E o \in d.orgs : o.org_id = BigInt(orgIdStr)
  THEN (CHOOSE o \in d.orgs : o.org_id = BigInt(orgIdStr)).created_by
  ELSE JsNull

\* C1: getUserRole called by the creator of an organization returns 'admin'
\* whatever the member table held before, and leaves exactly one member row
\* for (organization, creator), with role 'admin'.
C1_CreatorResolvesAdmin ==
  (last.op = "getUserRole" /\ CreatorOf(db, last.orgId) = last.caller)
    => /\ last.ret = "admin"
       /\ MemberRows(db, BigInt(last.orgId), last.caller)
            = {[org_id |-> BigInt(last.orgId), user_id |-> last.caller, role |-> "admin"]}

\* The creator called getUserRole while holding a member row with another role.
C1_Witness ==
  /\ last.op = "getUserRole"
  /\ CreatorOf(db, last.orgId) = last.caller
  /\ last.prior = "reader"
  /\ last.ret = "admin"

\* The creator called getUserRole while holding no member row at all.
C1_WitnessAbsent ==
  /\ last.op = "getUserRole"
  /\ CreatorOf(db, last.orgId) = last.caller
  /\ last.prior = JsNull
  /\ last.ret = "admin"

\* C4: ensureOrganizationMember fails for an organization that does not exist
\* and for a non-creator without a member row, changing no member row; it
\* succeeds for the creator, who is left with an 'admin' row, and for a
\* non-creator who has a row, whose role stays what it was.
C4_EnsureMember ==
  [][ (last'.op = "ensureOrganizationMember" /\ last'.caller \in Principals)
      => LET u == last'.caller
             creator == CreatorOf(db, last'.orgId)
             o == BigInt(last'.orgId)
         IN  IF creator = JsNull
             THEN ~last'.ok /\ db'.members = db.members
             ELSE IF creator = u
             THEN /\ last'.ok
                  /\ MemberRows(db', o, u) = {[org_id |-> o, user_id |-> u, role |-> "admin"]}
             ELSE IF MemberRows(db, o, u) = {}
             THEN ~last'.ok /\ db'.members = db.members
             ELSE last'.ok /\ db'.members = db.members ]_vars

\* A non-creator without a member row was turned away.
C4_Witness ==
  /\ last.op = "ensureOrganizationMember"
  /\ last.caller \in Principals
  /\ CreatorOf(db, last.orgId) \notin {JsNull, last.caller}
  /\ last.prior = JsNull
  /\ ~last.ok
  /\ last.err = "Access denied"

(***************************************************************************)
(* The permission gate on its own: hasPermission applied to every role and *)
(* every list of required roles of the bounded sets.                       *)
(***************************************************************************)
MaxRequired == 2      \* longest list of required roles drawn freely

RoleInputs ==
  {JsNull, "", "null", "undefined", "NULL", "admin", "Admin", "writer", "read-write", "reader"}

RequiredInputs ==
  UNION { [1..n -> {"admin", "writer", "null", "Admin"}] : n \in 0..MaxRequired }
    \cup { <<"writer", "read-write", "admin">>,
           <<"reader", "writer", "read-write", "admin">> }

InitPerm == db = EmptyDb /\ last = [op |-> "none"] /\ inflight = {} /\ cache = {}

NextPerm == \E role \in RoleInputs, req \in RequiredInputs : DoHasPermission(role, req)

SpecPerm == InitPerm /\ [][NextPerm]_vars

\* The roles hasPermission treats as no role at all.
NoRole == {JsNull, "", "null", "undefined", "NULL"}

\* C2: hasPermission is false for a null, empty or sentinel role, true for
\* 'admin' whatever is required, and otherwise true exactly when the role is
\* an element of requiredRoles.
C2_PermissionGate ==
  last.op = "hasPermission"
    => last.ret = ( /\ last.role \notin NoRole
                    /\ \/ last.role = "admin"
                       \/ last.role \in {last.requiredRoles[i] : i \in DOMAIN last.requiredRoles} )

\* 'admin' was let through an empty list of required roles.
C2_Witness ==
  /\ last.op = "hasPermission"
  /\ last.role = "admin"
  /\ last.requiredRoles = <<>>
  /\ last.ret = TRUE

(***************************************************************************)
(* app/organization/actions.ts                                             *)
(***************************************************************************)
\* A variant of the duplicate check that compares the names exactly.
ExistingOrgExact(d, uid, trimmedName) ==
  {o \in d.orgs : o.created_by = uid /\ o.name = trimmedName}

\* The caller's organizations whose name equals the name, ignoring case.
ExistingOrg(d, uid, trimmedName) ==
  {o \in d.orgs : o.created_by = uid /\ EqualsInsensitive(o.name, trimmedName)}

\* createOrganization: the organization and its creator's admin member row,
\* written in one transaction.
createOrganization(d, uid, name) ==
  IF uid = NoPrincipal THEN [db |-> d, err |-> "Unauthorized", ret |-> JsNull]
  ELSE IF Trim(name) = <<>>
  THEN [db |-> d, err |-> "Organization name is required", ret |-> JsNull]
  ELSE
    LET trimmedName == Trim(name)
        d1 == getOrCreateUser(d, uid)
        id == d1.nextId.org
        member == [org_id |-> id, user_id |-> uid, role |-> "admin"]
        d2 == [d1 EXCEPT !.orgs = @ \cup {[org_id |-> id, name |-> trimmedName,
                                           created_by |-> uid]},
                         !.members = @ \cup {member},
                         !.nextId.org = @ + 1]
    IN  IF ExistingOrg(d1, uid, trimmedName) # {}
        THEN [db |-> d1, err |-> "You already have an organization with this name",
              ret |-> JsNull]
        ELSE IF MemberRows(d2, id, uid) # {member}
        THEN [db |-> d1, err |-> "Failed to create organization member record",
              ret |-> JsNull]
        ELSE [db |-> d2, err |-> "", ret |-> NatToStr(id)]

\* The end of the guard: r is what getUserRole returned.
GateRole(r, requiredRoles, denied) ==
  [db |-> r.db, err |-> IF hasPermission(r.role, requiredRoles) THEN "" ELSE denied]

\* A variant of the guard that asks for membership only, not for a role.
GateMembersOnly(e, uid, orgIdStr, requiredRoles, denied) ==
  IF e.err # "" THEN e
  ELSE [db |-> getUserRole(e.db, uid, orgIdStr).db, err |-> ""]

\* The guard after ensureOrganizationMember, whose outcome is e.
GateMember(e, uid, orgIdStr, requiredRoles, denied) ==
  IF e.err # "" THEN e
  ELSE GateRole(getUserRole(e.db, uid, orgIdStr), requiredRoles, denied)

\* The guard every role-gated action starts with: ensureOrganizationMember,
\* then getUserRole, then hasPermission against the roles the action allows.
\* err is "" when the caller may go on; db is what the two calls leave.
Gate(d, uid, orgIdStr, requiredRoles, denied) ==
  IF ~BigIntOk(orgIdStr) THEN [db |-> d, err |-> "Invalid organization ID format"]
  ELSE GateMember(ensureOrganizationMember(d, uid, orgIdStr), uid, orgIdStr,
                  requiredRoles, denied)

\* updateOrganization: rename, admins only.
updateOrganization(d, uid, orgIdStr, name) ==
  IF uid = NoPrincipal THEN [db |-> d, err |-> "Unauthorized"]
  ELSE IF orgIdStr = <<>> THEN [db |-> d, err |-> "Organization ID is required"]
  ELSE IF Trim(name) = <<>> THEN [db |-> d, err |-> "Organization name is required"]
  ELSE
    LET g == Gate(d, uid, orgIdStr, <<"admin">>, "Only admins can update organizations")
        bigOrgId == BigInt(orgIdStr)
    IN  IF g.err # "" THEN g
        ELSE [db |-> [g.db EXCEPT !.orgs =
                        { IF o.org_id = bigOrgId THEN [o EXCEPT !.name = Trim(name)] ELSE o
                          : o \in @ }],
              err |-> ""]

(***************************************************************************)
(* Referential integrity.  A delete of rows that other rows still refer to *)
(* is refused by the database ("Foreign key constraint"), except that      *)
(* deleting a product takes its stock and price rows with it.  Ledger rows *)
(* carry product_id and warehouse_id but no operation of the system, and   *)
(* no referential action, ever removes one.                                *)
(***************************************************************************)
Ids(rows, field) == {r[field] : r \in rows}

\* The rows of one table that belong to an organization, as the where
\* clauses of deleteOrganization select them.
RowsOfOrg(d, table, bigOrgId) ==
  LET orderIds == Ids({o \in d.orders : o.org_id = bigOrgId}, "order_id")
      productIds == Ids({p \in d.products : p.org_id = bigOrgId}, "product_id")
  IN  CASE table = "orderItems" -> {x \in d.orderItems : x.order_id \in orderIds}
        [] table = "orders"     -> {x \in d.orders : x.org_id = bigOrgId}
        [] table = "prices"     -> {x \in d.prices : x.product_id \in productIds}
        [] table = "stocks"     -> {x \in d.stocks : x.product_id \in productIds}
        [] table = "products"   -> {x \in d.products : x.org_id = bigOrgId}
        [] table = "warehouses" -> {x \in d.warehouses : x.org_id = bigOrgId}
        [] table = "invites"    -> {x \in d.invites : x.org_id = bigOrgId}
        [] table = "members"    -> {x \in d.members : x.org_id = bigOrgId}
        [] table = "orgs"       -> {x \in d.orgs : x.org_id = bigOrgId}

\* Some row that the delete would leave behind still refers to a row of it.
ForeignKeyViolated(d, table, rows) ==
  CASE table = "orders" ->
         \E x \in d.orderItems : x.order_id \in Ids(rows, "order_id")
    [] table = "products" ->
         \/ \E x \in d.orderItems : x.product_id \in Ids(rows, "product_id")
         \/ /\ d.ledgerFk = "restrict"
            /\ \E x \in d.movements : x.product_id \in Ids(rows, "product_id")
    [] table = "warehouses" ->
         \/ \E x \in d.stocks : x.warehouse_id \in Ids(rows, "warehouse_id")
         \/ /\ d.ledgerFk = "restrict"
            /\ \E x \in d.movements : x.warehouse_id \in Ids(rows, "warehouse_id")
    [] table = "orgs" ->
         \E t \in {"orders", "products", "warehouses", "invites", "members"} :
           \E id \in Ids(rows, "org_id") : RowsOfOrg(d, t, id) # {}
    [] OTHER -> FALSE

\* A variant whose delete of a product takes its ledger rows along.
DeleteRowsWithLedger(d, table, rows) ==
  IF ForeignKeyViolated(d, table, rows) THEN [ok |-> FALSE, db |-> d]
  ELSE IF table = "products"
  THEN [ok |-> TRUE,
        db |-> [d EXCEPT !.products = @ \ rows,
                         !.stocks = {x \in @ : x.product_id \notin Ids(rows, "product_id")},
                         !.prices = {x \in @ : x.product_id \notin Ids(rows, "product_id")},
                         !.movements = {x \in @ : x.product_id \notin Ids(rows, "product_id")}]]
  ELSE [ok |-> TRUE, db |-> [d EXCEPT ![table] = @ \ rows]]

\* deleteMany / delete of rows of one table; ok is FALSE when the database
\* refuses it.
DeleteRows(d, table, rows) ==
  IF ForeignKeyViolated(d, table, rows) THEN [ok |-> FALSE, db |-> d]
  ELSE IF table = "products"
  THEN [ok |-> TRUE,
        db |-> [d EXCEPT !.products = @ \ rows,
                         !.stocks = {x \in @ : x.product_id \notin Ids(rows, "product_id")},
                         !.prices = {x \in @ : x.product_id \notin Ids(rows, "product_id")}]]
  ELSE [ok |-> TRUE, db |-> [d EXCEPT ![table] = @ \ rows]]

\* The deleteMany calls of the transaction, one table after the other.
RECURSIVE RunDeletes(_, _, _)
RunDeletes(d, bigOrgId, tables) ==
  IF tables = <<>> THEN [ok |-> TRUE, db |-> d]
  ELSE LET r == DeleteRows(d, Head(tables), RowsOfOrg(d, Head(tables), bigOrgId))
       IN  IF r.ok THEN RunDeletes(r.db, bigOrgId, Tail(tables)) ELSE r

\* The tables force-delete clears first, in the order of the transaction.
ForceDeleteOrder ==
  <<"orderItems", "orders", "prices", "stocks", "products", "warehouses">>

\* The tables every delete clears, in the order of the transaction.
PlainDeleteOrder == <<"invites", "members", "orgs">>

\* warehouse.count, product.count, order.count > 0
HasRelatedData(d, bigOrgId) ==
  \E t \in {"warehouses", "products", "orders"} : RowsOfOrg(d, t, bigOrgId) # {}

\* deleteOrganization: order is the tables the transaction deleted from.
deleteOrganization(d, uid, orgIdStr, force) ==
  IF uid = NoPrincipal THEN [db |-> d, err |-> "Unauthorized", order |-> <<>>]
  ELSE IF orgIdStr = <<>> THEN [db |-> d, err |-> "Organization ID is required", order |-> <<>>]
  ELSE
    LET g == Gate(d, uid, orgIdStr, <<"admin">>, "Only admins can delete organizations")
        bigOrgId == BigInt(orgIdStr)
        related == HasRelatedData(g.db, bigOrgId)
        tables == (IF force /\ related THEN ForceDeleteOrder ELSE <<>>) \o PlainDeleteOrder
        tx == RunDeletes(g.db, bigOrgId, tables)
    IN  IF g.err # "" THEN [db |-> g.db, err |-> g.err, order |-> <<>>]
        ELSE IF related /\ ~force
        THEN [db |-> g.db, err |-> "Cannot delete organization. It contains data",
              order |-> <<>>]
        ELSE IF ~tx.ok
        THEN [db |-> g.db, err |-> "Cannot delete organization due to data dependencies",
              order |-> <<>>]
        ELSE [db |-> tx.db, err |-> "", order |-> tables]

(***************************************************************************)
(* Invitations (app/organization/actions.ts).  The clock, db.now, counts   *)
(* hours.                                                                  *)
(***************************************************************************)
InviteTtl == 24

\* role.trim() on the role strings callers pass.
TrimRole(role) ==
  CASE role = " writer " -> "writer"
    [] role = " " -> ""
    [] OTHER -> role

\* inviteEmployee: ret is the token.
inviteEmployee(d, uid, orgIdStr, email, role) ==
  IF orgIdStr = <<>> THEN [db |-> d, err |-> "Organization ID is required", ret |-> JsNull]
  ELSE IF Trim(email) = <<>> THEN [db |-> d, err |-> "Email is required", ret |-> JsNull]
  ELSE IF TrimRole(role) = "" THEN [db |-> d, err |-> "Role is required", ret |-> JsNull]
  ELSE
    LET normalizedEmail == ToLowerCase(Trim(email))
        g == Gate(d, uid, orgIdStr, <<"admin">>, "Only admins can invite employees")
        bigOrgId == BigInt(orgIdStr)
        existingMember ==
          {m \in g.db.members :
             /\ m.org_id = bigOrgId
             /\ \E u \in g.db.users : u.user_id = m.user_id /\ u.email = normalizedEmail}
        pendingInvite ==
          {i \in g.db.invites :
             /\ i.org_id = bigOrgId
             /\ i.email = normalizedEmail
             /\ i.status = "pending"
             /\ i.expires_at >= g.db.now}
        token == NatToStr(g.db.nextId.invite)
    IN  IF g.err # "" THEN [db |-> g.db, err |-> g.err, ret |-> JsNull]
        ELSE IF existingMember # {}
        THEN [db |-> g.db, err |-> "User is already a member of this organization",
              ret |-> JsNull]
        ELSE IF pendingInvite # {}
        THEN [db |-> g.db, err |-> "A pending invitation already exists for this email",
              ret |-> JsNull]
        ELSE [db |-> [g.db EXCEPT
                        !.invites = @ \cup {[org_id |-> bigOrgId, email |-> normalizedEmail,
                                             token |-> token, role |-> TrimRole(role),
                                             status |-> "pending",
                                             expires_at |-> g.db.now + InviteTtl]},
                        !.nextId.invite = @ + 1],
              err |-> "", ret |-> token]

\* inviteEmployee up to its last check: the two findFirst queries found
\* neither a member nor a pending invite.
inviteEmployeeRead(d, uid, orgIdStr, email, role) ==
  LET r == inviteEmployee(d, uid, orgIdStr, email, role)
  IN  IF r.err # "" THEN [db |-> r.db, err |-> r.err]
      ELSE [db |-> Gate(d, uid, orgIdStr, <<"admin">>, "").db, err |-> "",
            tx |-> [op |-> "inviteEmployee", caller |-> uid, orgId |-> orgIdStr,
                    args |-> [email |-> email, role |-> role],
                    bigOrgId |-> BigInt(orgIdStr),
                    normalizedEmail |-> ToLowerCase(Trim(email))]]

\* inviteEmployee from its last check on: a new token, expiry 24 hours from
\* now, and the create, which names the organization.
inviteEmployeeWrite(d, t) ==
  LET token == NatToStr(d.nextId.invite)
  IN  IF ~\E o \in d.orgs : o.org_id = t.bigOrgId
      THEN [db |-> d, err |-> "Foreign key constraint", ret |-> JsNull]
      ELSE [db |-> [d EXCEPT
                      !.invites = @ \cup {[org_id |-> t.bigOrgId, email |-> t.normalizedEmail,
                                           token |-> token, role |-> TrimRole(t.args.role),
                                           status |-> "pending",
                                           expires_at |-> d.now + InviteTtl]},
                      !.nextId.invite = @ + 1],
            err |-> "", ret |-> token]

\* A variant for which no invite is ever too old.
ExpiredNever(invite, now) == FALSE

\* new Date(invite.expires_at) < new Date()
Expired(invite, now) == invite.expires_at < now

\* A variant that compares the e-mails without their case.
EmailMismatchInsensitive(invite, user) == ~EqualsInsensitive(invite.email, user.email)

\* invite.email !== user.email
EmailMismatch(invite, user) == invite.email # user.email

\* acceptInvite: ret is the id of the organization joined.
acceptInvite(d, uid, token) ==
  IF uid = NoPrincipal THEN [db |-> d, err |-> "Unauthorized", ret |-> JsNull]
  ELSE IF Trim(token) = <<>> THEN [db |-> d, err |-> "Invalid invitation token", ret |-> JsNull]
  ELSE
    LET found == {i \in d.invites : i.token = Trim(token)}
        invite == CHOOSE i \in found : TRUE
        d1 == getOrCreateUser(d, uid)
        user == CHOOSE u \in d1.users : u.user_id = uid
    IN  IF found = {} \/ invite.status # "pending"
        THEN [db |-> d, err |-> "Invalid invitation", ret |-> JsNull]
        ELSE IF Expired(invite, d.now)
        THEN [db |-> d, err |-> "Invitation has expired", ret |-> JsNull]
        ELSE IF EmailMismatch(invite, user)
        THEN [db |-> d1, err |-> "Email mismatch - invitation not for this user",
              ret |-> JsNull]
        ELSE IF MemberRows(d1, invite.org_id, uid) # {}
        THEN [db |-> d1, err |-> "User is already a member of this organization",
              ret |-> JsNull]
        ELSE [db |-> [d1 EXCEPT
                        !.members = @ \cup {[org_id |-> invite.org_id, user_id |-> uid,
                                             role |-> invite.role]},
                        !.invites = (@ \ {invite})
                                      \cup {[invite EXCEPT !.status = "accepted"]}],
              err |-> "", ret |-> NatToStr(invite.org_id)]

\* acceptInvite up to its last check: the invite it read is what it goes by.
acceptInviteRead(d, uid, token) ==
  LET r == acceptInvite(d, uid, token)
      found == {i \in d.invites : i.token = Trim(token)}
  IN  IF r.err # "" THEN [db |-> r.db, err |-> r.err]
      ELSE [db |-> getOrCreateUser(d, uid), err |-> "",
            tx |-> [op |-> "acceptInvite", caller |-> uid, orgId |-> <<>>,
                    args |-> [token |-> token],
                    invite |-> CHOOSE i \in found : TRUE]]

\* A variant whose membership has no key: a second create is not refused.
acceptInviteWriteNoKey(d, t) ==
  [db |-> [d EXCEPT
             !.members = @ \cup {[org_id |-> t.invite.org_id, user_id |-> t.caller,
                                  role |-> t.invite.role]},
             !.invites = {IF i.token = t.invite.token
                          THEN [i EXCEPT !.status = "accepted"] ELSE i : i \in @}],
   err |-> "", ret |-> NatToStr(t.invite.org_id)]

\* acceptInvite's transaction: the membership is created under the key
\* org_id_user_id, then the invite of the token is marked accepted.
acceptInviteWrite(d, t) ==
  IF MemberRows(d, t.invite.org_id, t.caller) # {}
  THEN [db |-> d, err |-> "Unique constraint failed", ret |-> JsNull]
  ELSE IF ~\E o \in d.orgs : o.org_id = t.invite.org_id
  THEN [db |-> d, err |-> "Foreign key constraint", ret |-> JsNull]
  ELSE IF ~\E i \in d.invites : i.token = t.invite.token
  THEN [db |-> d, err |-> "Record to update not found", ret |-> JsNull]
  ELSE [db |-> [d EXCEPT
                  !.members = @ \cup {[org_id |-> t.invite.org_id, user_id |-> t.caller,
                                       role |-> t.invite.role]},
                  !.invites = {IF i.token = t.invite.token
                               THEN [i EXCEPT !.status = "accepted"] ELSE i : i \in @}],
        err |-> "", ret |-> NatToStr(t.invite.org_id)]

(***************************************************************************)
(* app/inventory/actions.ts.  An optional field of the caller's data is a  *)
(* set: empty when the field is undefined, the value alone otherwise.      *)
(***************************************************************************)
WriterRoles == <<"writer", "read-write", "admin">>

Given(field) == field # {}

Val(field) == CHOOSE v \in field : TRUE

DefaultWarehouseName == "Default Warehouse"

\* getOrCreateDefaultWarehouse: the first warehouse of the organization,
\* created when it has none.  It writes through the global client, so the
\* row stays when the caller's transaction is rolled back.
getOrCreateDefaultWarehouse(d, bigOrgId) ==
  LET own == {w \in d.warehouses : w.org_id = bigOrgId}
      first == CHOOSE w \in own : \A v \in own : w.warehouse_id <= v.warehouse_id
      id == d.nextId.warehouse
  IN  IF own # {}
      THEN [db |-> d, warehouse_id |-> first.warehouse_id]
      ELSE [db |-> [d EXCEPT !.warehouses = @ \cup {[warehouse_id |-> id, org_id |-> bigOrgId,
                                                     name |-> DefaultWarehouseName]},
                             !.nextId.warehouse = @ + 1],
            warehouse_id |-> id]

\* The products of an organization that carry the SKU.
ProductsWithSku(d, bigOrgId, sku) ==
  {p \in d.products : p.org_id = bigOrgId /\ p.sku = sku}

\* A variant of the duplicate check that looks for the SKU as it was typed.
addProductRawSkuCheck(d, bigOrgId, rawSku) ==
  ProductsWithSku(d, bigOrgId, rawSku) # {}

\* addProduct's duplicate check: an existing product with the trimmed SKU.
addProductSkuTaken(d, bigOrgId, rawSku) ==
  ProductsWithSku(d, bigOrgId, Trim(rawSku)) # {}

\* The database refuses a write that leaves two products of one organization
\* with the same SKU, when the schema declares the SKU unique.
UniqueConstraintFailed(d) ==
  /\ d.skuUnique = "perOrg"
  /\ \E p1, p2 \in d.products :
       p1.product_id # p2.product_id /\ p1.org_id = p2.org_id /\ p1.sku = p2.sku

\* productStock rows of one (product, warehouse) pair.
StockRows(d, productId, warehouseId) ==
  {x \in d.stocks : x.product_id = productId /\ x.warehouse_id = warehouseId}

\* productStock.create
CreateStock(d, productId, warehouseId, quantity) ==
  [d EXCEPT !.stocks = @ \cup {[stock_id |-> d.nextId.stock, product_id |-> productId,
                                warehouse_id |-> warehouseId, quantity |-> quantity]},
            !.nextId.stock = @ + 1]

\* A variant that leaves the row it finds as it is.
SetStockKeep(d, productId, warehouseId, quantity) ==
  IF StockRows(d, productId, warehouseId) # {} THEN d
  ELSE CreateStock(d, productId, warehouseId, quantity)

\* productStock.findFirst on the pair, then update of the row found or create.
SetStock(d, productId, warehouseId, quantity) ==
  LET rows == StockRows(d, productId, warehouseId)
      row == CHOOSE x \in rows : TRUE
  IN  IF rows # {}
      THEN [d EXCEPT !.stocks = (@ \ {row}) \cup {[row EXCEPT !.quantity = quantity]}]
      ELSE CreateStock(d, productId, warehouseId, quantity)

NoDate == -1   \* valid_to of a price row that is still open (null)

\* A variant that closes the price row as it is created.
CreatePriceClosed(d, productId, retailPrice) ==
  [d EXCEPT !.prices = @ \cup {[price_id |-> d.nextId.price, product_id |-> productId,
                                retail_price |-> retailPrice, valid_from |-> d.now,
                                valid_to |-> d.now]},
            !.nextId.price = @ + 1]

\* productPrice.create with valid_from now and no valid_to.
CreatePrice(d, productId, retailPrice) ==
  [d EXCEPT !.prices = @ \cup {[price_id |-> d.nextId.price, product_id |-> productId,
                                retail_price |-> retailPrice, valid_from |-> d.now,
                                valid_to |-> NoDate]},
            !.nextId.price = @ + 1]

\* What can end addProduct's transaction from outside the code (its 10 s
\* timeout, a lost connection): nothing, or a failure of the stock insert or
\* of the price insert.
TxFaults == {"none", "stock", "price"}

\* What a rolled-back transaction of addProduct leaves: the writes made
\* through tx are undone, the warehouse written through prisma is not.
RolledBack(d, w) ==
  [d EXCEPT !.warehouses = w.warehouses, !.nextId.warehouse = w.nextId.warehouse]

\* addProduct: the product, its stock row in the default warehouse and its
\* first price row; fault is the step of the transaction that fails.
addProductTx(d, uid, orgIdStr, p, fault) ==
  IF uid = NoPrincipal THEN [db |-> d, err |-> "Unauthorized"]
  ELSE IF orgIdStr = <<>> THEN [db |-> d, err |-> "Organization ID is required"]
  ELSE IF Trim(p.name) = <<>> THEN [db |-> d, err |-> "Product name is required"]
  ELSE IF Trim(p.sku) = <<>> THEN [db |-> d, err |-> "Product SKU is required"]
  ELSE
    LET g == Gate(d, uid, orgIdStr, WriterRoles, "Insufficient permissions to add products")
        bigOrgId == BigInt(orgIdStr)
        d1 == getOrCreateUser(g.db, uid)
        stockQuantity == Max(0, p.stock)
        retailPrice == Max(0, p.price)
        id == d1.nextId.product
        d2 == [d1 EXCEPT !.products = @ \cup {[product_id |-> id, org_id |-> bigOrgId,
                                               name |-> Trim(p.name), sku |-> Trim(p.sku)]},
                         !.nextId.product = @ + 1]
        w == getOrCreateDefaultWarehouse(d2, bigOrgId)
        d3 == CreateStock(w.db, id, w.warehouse_id, stockQuantity)
        d4 == CreatePrice(d3, id, retailPrice)
    IN  IF g.err # "" THEN g
        ELSE IF addProductSkuTaken(d1, bigOrgId, p.sku)
        THEN [db |-> d1, err |-> "A product with this SKU already exists in this organization"]
        ELSE IF UniqueConstraintFailed(d2)
        THEN [db |-> d1, err |-> "A product with this SKU already exists in the organization"]
        ELSE IF fault # "none"
        THEN [db |-> RolledBack(d1, w.db), err |-> "Operation timed out. Please try again."]
        ELSE [db |-> d4, err |-> ""]

\* addProduct when nothing outside the code fails.
addProduct(d, uid, orgIdStr, p) == addProductTx(d, uid, orgIdStr, p, "none")

\* The rows productPrice.findFirst({ orderBy: { valid_from: 'desc' } }) may
\* return: the rows of the product with the newest valid_from.
LatestPrices(d, productId) ==
  LET own == {x \in d.prices : x.product_id = productId}
  IN  {x \in own : \A y \in own : y.valid_from <= x.valid_from}

\* The simple price path: the latest row is updated in place, or a first row
\* is created.  latest is the row findFirst returned.
RevisePrice(d, productId, retailPrice, latest) ==
  IF LatestPrices(d, productId) = {} THEN CreatePrice(d, productId, retailPrice)
  ELSE [d EXCEPT !.prices = (@ \ {latest}) \cup {[latest EXCEPT !.retail_price = retailPrice]}]

\* The products of the organization, other than the one updated, with the SKU.
DuplicateSku(d, bigOrgId, productId, sku) ==
  {p \in ProductsWithSku(d, bigOrgId, sku) : p.product_id # productId}

\* product.update of the fields the caller gave.
UpdateProductRow(d, productId, name, sku) ==
  [d EXCEPT !.products =
     { IF x.product_id = productId
       THEN [x EXCEPT !.name = IF Given(name) THEN Val(name) ELSE @,
                      !.sku = IF Given(sku) THEN Val(sku) ELSE @]
       ELSE x : x \in @ }]

\* updateProduct; latest is the price row findFirst returns when the product
\* has one.
updateProduct(d, uid, orgIdStr, idStr, p, latest) ==
  IF uid = NoPrincipal THEN [db |-> d, err |-> "Unauthorized"]
  ELSE IF orgIdStr = <<>> THEN [db |-> d, err |-> "Organization ID is required"]
  ELSE IF idStr = <<>> THEN [db |-> d, err |-> "Product ID is required"]
  ELSE IF Trim(p.name) = <<>> THEN [db |-> d, err |-> "Product name is required"]
  ELSE IF Trim(p.sku) = <<>> THEN [db |-> d, err |-> "Product SKU is required"]
  ELSE
    LET g == Gate(d, uid, orgIdStr, WriterRoles, "Insufficient permissions to update products")
        bigOrgId == BigInt(orgIdStr)
        productId == BigInt(idStr)
        d1 == getOrCreateUser(g.db, uid)
        d2 == UpdateProductRow(d1, productId, {Trim(p.name)}, {Trim(p.sku)})
        w == getOrCreateDefaultWarehouse(d2, bigOrgId)
        d3 == SetStock(w.db, productId, w.warehouse_id, Max(0, p.stock))
        d4 == RevisePrice(d3, productId, Max(0, p.price), latest)
    IN  IF g.err # "" THEN g
        ELSE IF ~BigIntOk(idStr)
        THEN [db |-> g.db, err |-> "Invalid organization or product ID format"]
        ELSE IF ~\E x \in d1.products : x.product_id = productId /\ x.org_id = bigOrgId
        THEN [db |-> d1, err |-> "Product not found in this organization"]
        ELSE IF DuplicateSku(d1, bigOrgId, productId, Trim(p.sku)) # {}
        THEN [db |-> d1, err |-> "A product with this SKU already exists in this organization"]
        ELSE IF UniqueConstraintFailed(d2)
        THEN [db |-> d1, err |-> "A product with this SKU already exists in the organization"]
        ELSE [db |-> d4, err |-> ""]

\* Some order item refers to the product.
HasOrderItems(d, productId) == \E x \in d.orderItems : x.product_id = productId

\* deleteProduct
deleteProduct(d, uid, orgIdStr, idStr) ==
  IF uid = NoPrincipal THEN [db |-> d, err |-> "Unauthorized"]
  ELSE IF orgIdStr = <<>> THEN [db |-> d, err |-> "Organization ID is required"]
  ELSE IF idStr = <<>> THEN [db |-> d, err |-> "Product ID is required"]
  ELSE
    LET g == Gate(d, uid, orgIdStr, WriterRoles, "Insufficient permissions to delete products")
        bigOrgId == BigInt(orgIdStr)
        productId == BigInt(idStr)
        existing == {x \in g.db.products : x.product_id = productId /\ x.org_id = bigOrgId}
        del == DeleteRows(g.db, "products", existing)
    IN  IF g.err # "" THEN g
        ELSE IF ~BigIntOk(idStr)
        THEN [db |-> g.db, err |-> "Invalid organization or product ID format"]
        ELSE IF existing = {}
        THEN [db |-> g.db, err |-> "Product not found in this organization"]
        ELSE IF HasOrderItems(g.db, productId)
        THEN [db |-> g.db, err |-> "Cannot delete product that has been ordered"]
        ELSE IF ~del.ok THEN [db |-> g.db, err |-> "Foreign key constraint"]
        ELSE [db |-> del.db, err |-> ""]

\* One item of bulkUpdateProducts, inside the transaction: ok is FALSE when a
\* statement throws.  u is [id, name, sku, stock, price, latest].
BulkItem(d, bigOrgId, u) ==
  IF ~BigIntOk(u.id) THEN [ok |-> FALSE, db |-> d]
  ELSE
    LET productId == BigInt(u.id)
        trimmed(f) == IF Given(f) THEN {Trim(Val(f))} ELSE {}
        d1 == UpdateProductRow(d, productId, trimmed(u.name), trimmed(u.sku))
        w == getOrCreateDefaultWarehouse(d1, bigOrgId)
        d2 == IF Given(u.stock)
              THEN SetStock(w.db, productId, w.warehouse_id, Max(0, Val(u.stock)))
              ELSE d1
        d3 == IF Given(u.price)
              THEN RevisePrice(d2, productId, Max(0, Val(u.price)), u.latest)
              ELSE d2
    IN  IF ~\E x \in d.products : x.product_id = productId /\ x.org_id = bigOrgId
        THEN [ok |-> FALSE, db |-> d]
        ELSE IF UniqueConstraintFailed(d1) THEN [ok |-> FALSE, db |-> d]
        ELSE [ok |-> TRUE, db |-> d3]

RECURSIVE BulkItems(_, _, _)
BulkItems(d, bigOrgId, updates) ==
  IF updates = <<>> THEN [ok |-> TRUE, db |-> d]
  ELSE LET r == BulkItem(d, bigOrgId, Head(updates))
       IN  IF r.ok THEN BulkItems(r.db, bigOrgId, Tail(updates)) ELSE r

\* The default warehouse a rolled-back transaction leaves behind: the one
\* getOrCreateDefaultWarehouse wrote through the global client.
KeepWarehouses(before, after) ==
  [before EXCEPT !.warehouses = after.warehouses, !.nextId.warehouse = after.nextId.warehouse]

\* bulkUpdateProducts
bulkUpdateProducts(d, uid, orgIdStr, updates) ==
  IF uid = NoPrincipal THEN [db |-> d, err |-> "Unauthorized"]
  ELSE IF orgIdStr = <<>> THEN [db |-> d, err |-> "Organization ID is required"]
  ELSE IF updates = <<>> THEN [db |-> d, err |-> "No updates provided"]
  ELSE
    LET g == Gate(d, uid, orgIdStr, WriterRoles, "Insufficient permissions to update products")
        d1 == getOrCreateUser(g.db, uid)
        tx == BulkItems(d1, BigInt(orgIdStr), updates)
    IN  IF g.err # "" THEN g
        ELSE IF ~tx.ok THEN [db |-> KeepWarehouses(d1, tx.db), err |-> "Failed to update products"]
        ELSE [db |-> tx.db, err |-> ""]

\* A variant that inserts the new row and closes none.
InsertPrice(d, productId, retailPrice) == CreatePrice(d, productId, retailPrice)

\* The close-then-insert price path: every open row of the product is closed
\* at now and a new open row is created.
SupersedePrice(d, productId, retailPrice) ==
  CreatePrice([d EXCEPT !.prices =
                 { IF x.product_id = productId /\ x.valid_to = NoDate
                   THEN [x EXCEPT !.valid_to = d.now] ELSE x : x \in @ }],
              productId, retailPrice)

\* updateProductDetails; data is [name, sku, price], each optional.
updateProductDetails(d, uid, orgIdStr, idStr, data) ==
  IF uid = NoPrincipal THEN [db |-> d, err |-> "Unauthorized"]
  ELSE IF orgIdStr = <<>> THEN [db |-> d, err |-> "Organization ID is required"]
  ELSE IF idStr = <<>> THEN [db |-> d, err |-> "Product ID is required"]
  ELSE IF ~BigIntOk(idStr) THEN [db |-> d, err |-> "Invalid product or organization ID format"]
  ELSE
    LET g == Gate(d, uid, orgIdStr, WriterRoles, "Insufficient permissions to update products")
        bigOrgId == BigInt(orgIdStr)
        productId == BigInt(idStr)
        trimmed(f) == IF Given(f) THEN {Trim(Val(f))} ELSE {}
        d1 == getOrCreateUser(g.db, uid)
        d2 == UpdateProductRow(d1, productId, trimmed(data.name), trimmed(data.sku))
        d3 == IF Given(data.price) THEN SupersedePrice(d2, productId, Val(data.price)) ELSE d2
    IN  IF g.err # "" THEN g
        ELSE IF ~\E x \in d1.products : x.product_id = productId /\ x.org_id = bigOrgId
        THEN [db |-> d1, err |-> "Record to update not found"]
        ELSE IF UniqueConstraintFailed(d2) THEN [db |-> d1, err |-> "Unique constraint"]
        ELSE [db |-> d3, err |-> ""]

\* A variant whose three deletes run outside a transaction: the price and
\* stock rows are gone when the delete of the product fails.
deleteProductDetailsNoTx(d, uid, orgIdStr, idStr) ==
  IF uid = NoPrincipal THEN [db |-> d, err |-> "Unauthorized"]
  ELSE IF orgIdStr = <<>> THEN [db |-> d, err |-> "Organization ID is required"]
  ELSE IF idStr = <<>> THEN [db |-> d, err |-> "Product ID is required"]
  ELSE IF ~BigIntOk(idStr) THEN [db |-> d, err |-> "Invalid product or organization ID format"]
  ELSE
    LET g == Gate(d, uid, orgIdStr, WriterRoles, "Insufficient permissions to delete products")
        bigOrgId == BigInt(orgIdStr)
        productId == BigInt(idStr)
        d1 == [g.db EXCEPT !.prices = {x \in @ : x.product_id # productId},
                           !.stocks = {x \in @ : x.product_id # productId}]
        existing == {x \in d1.products : x.product_id = productId /\ x.org_id = bigOrgId}
        del == DeleteRows(d1, "products", existing)
    IN  IF g.err # "" THEN g
        ELSE IF HasOrderItems(g.db, productId)
        THEN [db |-> g.db, err |-> "Cannot delete product that has been ordered"]
        ELSE IF existing = {} THEN [db |-> d1, err |-> "Record to delete does not exist"]
        ELSE IF ~del.ok THEN [db |-> d1, err |-> "Foreign key constraint"]
        ELSE [db |-> del.db, err |-> ""]

\* deleteProductDetails
deleteProductDetails(d, uid, orgIdStr, idStr) ==
  IF uid = NoPrincipal THEN [db |-> d, err |-> "Unauthorized"]
  ELSE IF orgIdStr = <<>> THEN [db |-> d, err |-> "Organization ID is required"]
  ELSE IF idStr = <<>> THEN [db |-> d, err |-> "Product ID is required"]
  ELSE IF ~BigIntOk(idStr) THEN [db |-> d, err |-> "Invalid product or organization ID format"]
  ELSE
    LET g == Gate(d, uid, orgIdStr, WriterRoles, "Insufficient permissions to delete products")
        bigOrgId == BigInt(orgIdStr)
        productId == BigInt(idStr)
        d1 == [g.db EXCEPT !.prices = {x \in @ : x.product_id # productId},
                           !.stocks = {x \in @ : x.product_id # productId}]
        existing == {x \in d1.products : x.product_id = productId /\ x.org_id = bigOrgId}
        del == DeleteRows(d1, "products", existing)
    IN  IF g.err # "" THEN g
        ELSE IF HasOrderItems(g.db, productId)
        THEN [db |-> g.db, err |-> "Cannot delete product that has been ordered"]
        ELSE IF existing = {} THEN [db |-> g.db, err |-> "Record to delete does not exist"]
        ELSE IF ~del.ok THEN [db |-> g.db, err |-> "Foreign key constraint"]
        ELSE [db |-> del.db, err |-> ""]

ReaderRoles == <<"reader", "writer", "read-write", "admin">>

PriceHistoryTake == 20

\* reduce((acc, stock) => acc + (stock.quantity || 0), 0)
RECURSIVE TotalStock(_)
TotalStock(rows) ==
  IF rows = {} THEN 0
  ELSE LET x == CHOOSE y \in rows : TRUE
       IN  x.quantity + TotalStock(rows \ {x})

\* getProductDetails: latest is the price row the descending order puts first.
getProductDetails(d, uid, orgIdStr, idStr, latest) ==
  IF uid = NoPrincipal THEN [db |-> d, err |-> "Unauthorized", ret |-> <<>>]
  ELSE IF orgIdStr = <<>> THEN [db |-> d, err |-> "Organization ID is required", ret |-> <<>>]
  ELSE IF idStr = <<>> THEN [db |-> d, err |-> "Product ID is required", ret |-> <<>>]
  ELSE IF ~BigIntOk(idStr)
  THEN [db |-> d, err |-> "Invalid product or organization ID format", ret |-> <<>>]
  ELSE
    LET g == Gate(d, uid, orgIdStr, ReaderRoles, "Insufficient permissions to view product details")
        bigOrgId == BigInt(orgIdStr)
        productId == BigInt(idStr)
        product == {x \in g.db.products : x.product_id = productId /\ x.org_id = bigOrgId}
        productStocks == {x \in g.db.stocks : x.product_id = productId}
        productPrices == {x \in g.db.prices : x.product_id = productId}
        warehouseOf(x) == CHOOSE w \in g.db.warehouses : w.warehouse_id = x.warehouse_id
    IN  IF g.err # "" THEN [db |-> g.db, err |-> g.err, ret |-> <<>>]
        ELSE IF product = {} THEN [db |-> g.db, err |-> "Product not found", ret |-> <<>>]
        ELSE [db |-> g.db, err |-> "",
              ret |-> [totalStock |-> TotalStock(productStocks),
                       currentPrice |-> IF productPrices = {} THEN 0 ELSE latest.retail_price,
                       priceHistory |-> IF Cardinality(productPrices) <= PriceHistoryTake
                                        THEN Cardinality(productPrices) ELSE PriceHistoryTake,
                       warehouses |-> {[id |-> x.warehouse_id, name |-> warehouseOf(x).name,
                                        stock |-> x.quantity] : x \in productStocks}]]

\* The product and the warehouse a new stock row refers to both exist.
StockRefsExist(d, productId, warehouseId) ==
  /\ \E x \in d.products : x.product_id = productId
  /\ \E w \in d.warehouses : w.warehouse_id = warehouseId

\* stockMovement.create
LogMovement(d, productId, warehouseId, type, quantity) ==
  [d EXCEPT !.movements = @ \cup {[movement_id |-> d.nextId.movement,
                                   product_id |-> productId, warehouse_id |-> warehouseId,
                                   type |-> type, quantity |-> quantity]},
            !.nextId.movement = @ + 1]

\* updateProductStock
updateProductStock(d, uid, orgIdStr, idStr, warehouseStr, adjustment) ==
  IF uid = NoPrincipal THEN [db |-> d, err |-> "Unauthorized"]
  ELSE IF orgIdStr = <<>> THEN [db |-> d, err |-> "Organization ID is required"]
  ELSE IF idStr = <<>> THEN [db |-> d, err |-> "Product ID is required"]
  ELSE IF warehouseStr = <<>> THEN [db |-> d, err |-> "Warehouse ID is required"]
  ELSE IF ~BigIntOk(idStr) \/ ~BigIntOk(warehouseStr)
  THEN [db |-> d, err |-> "Cannot convert to a BigInt"]
  ELSE
    LET g == Gate(d, uid, orgIdStr, WriterRoles, "Insufficient permissions to update stock")
        productId == BigInt(idStr)
        warehouseId == BigInt(warehouseStr)
        d1 == getOrCreateUser(g.db, uid)
        existingStock == StockRows(d1, productId, warehouseId)
        quantity == IF existingStock = {} THEN 0 ELSE (CHOOSE x \in existingStock : TRUE).quantity
        newQuantity == quantity + adjustment
        d2 == IF existingStock # {}
              THEN SetStock(d1, productId, warehouseId, newQuantity)
              ELSE CreateStock(d1, productId, warehouseId, Max(0, adjustment))
        d3 == LogMovement(d2, productId, warehouseId,
                          IF adjustment > 0 THEN "in" ELSE "out", Abs(adjustment))
    IN  IF g.err # "" THEN g
        ELSE IF newQuantity < 0
        THEN [db |-> d1, err |-> "Insufficient stock for this adjustment"]
        ELSE IF existingStock = {} /\ ~StockRefsExist(d1, productId, warehouseId)
        THEN [db |-> d1, err |-> "Foreign key constraint"]
        ELSE [db |-> d3, err |-> ""]

\* A variant that only asks for a source row.
SourceMissing(sourceStock, quantity) == sourceStock = {}

\* !sourceStock || sourceStock.quantity < quantity
SourceShort(sourceStock, quantity) ==
  sourceStock = {} \/ (CHOOSE x \in sourceStock : TRUE).quantity < quantity

\* transferStock
transferStock(d, uid, orgIdStr, idStr, fromStr, toStr, quantity) ==
  IF uid = NoPrincipal THEN [db |-> d, err |-> "Unauthorized"]
  ELSE IF orgIdStr = <<>> THEN [db |-> d, err |-> "Organization ID is required"]
  ELSE IF idStr = <<>> THEN [db |-> d, err |-> "Product ID is required"]
  ELSE IF fromStr = <<>> \/ toStr = <<>> THEN [db |-> d, err |-> "Both warehouses are required"]
  ELSE IF quantity <= 0 THEN [db |-> d, err |-> "Quantity must be positive"]
  ELSE IF ~BigIntOk(idStr) \/ ~BigIntOk(fromStr) \/ ~BigIntOk(toStr)
  THEN [db |-> d, err |-> "Cannot convert to a BigInt"]
  ELSE
    LET g == Gate(d, uid, orgIdStr, WriterRoles, "Insufficient permissions to transfer stock")
        productId == BigInt(idStr)
        fromId == BigInt(fromStr)
        toId == BigInt(toStr)
        d1 == getOrCreateUser(g.db, uid)
        sourceStock == StockRows(d1, productId, fromId)
        source == CHOOSE x \in sourceStock : TRUE
        d2 == SetStock(d1, productId, fromId, source.quantity - quantity)
        destStock == StockRows(d2, productId, toId)
        d3 == IF destStock # {}
              THEN SetStock(d2, productId, toId, (CHOOSE x \in destStock : TRUE).quantity + quantity)
              ELSE CreateStock(d2, productId, toId, quantity)
        d4 == LogMovement(LogMovement(d3, productId, fromId, "out", quantity),
                          productId, toId, "in", quantity)
    IN  IF g.err # "" THEN g
        ELSE IF SourceShort(sourceStock, quantity)
        THEN [db |-> d1, err |-> "Insufficient stock in source warehouse"]
        ELSE IF destStock = {} /\ ~StockRefsExist(d2, productId, toId)
        THEN [db |-> d1, err |-> "Foreign key constraint"]
        ELSE [db |-> d4, err |-> ""]

(***************************************************************************)
(* The two stock transactions in two steps, as they run next to other      *)
(* calls: first the checks and the reads, which fix what will be written,  *)
(* then the writes.  Each update names the row by the stock_id it read.    *)
(***************************************************************************)
NoStock == [stock_id |-> 0, quantity |-> 0]

\* productStock.findFirst on the pair: the row, NoStock when there is none.
FindStock(d, productId, warehouseId) ==
  IF StockRows(d, productId, warehouseId) = {} THEN NoStock
  ELSE LET x == CHOOSE y \in StockRows(d, productId, warehouseId) : TRUE
       IN  [stock_id |-> x.stock_id, quantity |-> x.quantity]

\* productStock.update({ where: { stock_id } }); the row may be gone.
UpdateStockById(d, stockId, quantity) ==
  IF \E x \in d.stocks : x.stock_id = stockId
  THEN [ok |-> TRUE,
        db |-> [d EXCEPT !.stocks = {IF x.stock_id = stockId THEN [x EXCEPT !.quantity = quantity]
                                     ELSE x : x \in @}]]
  ELSE [ok |-> FALSE, db |-> d]

\* productStock.create; the product and the warehouse may be gone.
CreateStockChecked(d, productId, warehouseId, quantity) ==
  IF StockRefsExist(d, productId, warehouseId)
  THEN [ok |-> TRUE, db |-> CreateStock(d, productId, warehouseId, quantity)]
  ELSE [ok |-> FALSE, db |-> d]

\* The update of the row read, or the create when none was read.
WriteStock(d, read, productId, warehouseId, updated, created) ==
  IF read.stock_id # 0 THEN UpdateStockById(d, read.stock_id, updated)
  ELSE CreateStockChecked(d, productId, warehouseId, created)

\* updateProductStock up to the check of the new quantity.
updateProductStockRead(d, uid, orgIdStr, idStr, warehouseStr, adjustment) ==
  IF uid = NoPrincipal THEN [db |-> d, err |-> "Unauthorized"]
  ELSE IF orgIdStr = <<>> THEN [db |-> d, err |-> "Organization ID is required"]
  ELSE IF idStr = <<>> THEN [db |-> d, err |-> "Product ID is required"]
  ELSE IF warehouseStr = <<>> THEN [db |-> d, err |-> "Warehouse ID is required"]
  ELSE IF ~BigIntOk(idStr) \/ ~BigIntOk(warehouseStr)
  THEN [db |-> d, err |-> "Cannot convert to a BigInt"]
  ELSE
    LET g == Gate(d, uid, orgIdStr, WriterRoles, "Insufficient permissions to update stock")
        d1 == getOrCreateUser(g.db, uid)
        existingStock == FindStock(d1, BigInt(idStr), BigInt(warehouseStr))
    IN  IF g.err # "" THEN g
        ELSE IF existingStock.quantity + adjustment < 0
        THEN [db |-> d1, err |-> "Insufficient stock for this adjustment"]
        ELSE [db |-> d1, err |-> "",
              tx |-> [op |-> "updateProductStock", caller |-> uid, orgId |-> orgIdStr,
                      args |-> [id |-> idStr, warehouse |-> warehouseStr,
                                adjustment |-> adjustment],
                      existingStock |-> existingStock]]

\* updateProductStock from the write of the stock row on.
updateProductStockWrite(d, t) ==
  LET productId == BigInt(t.args.id)
      warehouseId == BigInt(t.args.warehouse)
      adjustment == t.args.adjustment
      w == WriteStock(d, t.existingStock, productId, warehouseId,
                      t.existingStock.quantity + adjustment, Max(0, adjustment))
  IN  IF ~w.ok THEN [db |-> d, err |-> "Record to update not found"]
      ELSE [db |-> LogMovement(w.db, productId, warehouseId,
                               IF adjustment > 0 THEN "in" ELSE "out", Abs(adjustment)),
            err |-> ""]

\* transferStock up to the check of the source stock.
transferStockRead(d, uid, orgIdStr, idStr, fromStr, toStr, quantity) ==
  IF uid = NoPrincipal THEN [db |-> d, err |-> "Unauthorized"]
  ELSE IF orgIdStr = <<>> THEN [db |-> d, err |-> "Organization ID is required"]
  ELSE IF idStr = <<>> THEN [db |-> d, err |-> "Product ID is required"]
  ELSE IF fromStr = <<>> \/ toStr = <<>> THEN [db |-> d, err |-> "Both warehouses are required"]
  ELSE IF quantity <= 0 THEN [db |-> d, err |-> "Quantity must be positive"]
  ELSE IF ~BigIntOk(idStr) \/ ~BigIntOk(fromStr) \/ ~BigIntOk(toStr)
  THEN [db |-> d, err |-> "Cannot convert to a BigInt"]
  ELSE
    LET g == Gate(d, uid, orgIdStr, WriterRoles, "Insufficient permissions to transfer stock")
        d1 == getOrCreateUser(g.db, uid)
        sourceStock == FindStock(d1, BigInt(idStr), BigInt(fromStr))
    IN  IF g.err # "" THEN g
        ELSE IF SourceShort(StockRows(d1, BigInt(idStr), BigInt(fromStr)), quantity)
        THEN [db |-> d1, err |-> "Insufficient stock in source warehouse"]
        ELSE [db |-> d1, err |-> "",
              tx |-> [op |-> "transferStock", caller |-> uid, orgId |-> orgIdStr,
                      args |-> [id |-> idStr, from |-> fromStr, to |-> toStr,
                                quantity |-> quantity],
                      sourceStock |-> sourceStock]]

\* transferStock from the update of the source row on: the destination is
\* read after that update.
transferStockWrite(d, t) ==
  LET productId == BigInt(t.args.id)
      fromId == BigInt(t.args.from)
      toId == BigInt(t.args.to)
      quantity == t.args.quantity
      s == UpdateStockById(d, t.sourceStock.stock_id, t.sourceStock.quantity - quantity)
      destStock == FindStock(s.db, productId, toId)
      w == WriteStock(s.db, destStock, productId, toId, destStock.quantity + quantity, quantity)
  IN  IF ~s.ok \/ ~w.ok THEN [db |-> d, err |-> "Record to update not found"]
      ELSE [db |-> LogMovement(LogMovement(w.db, productId, fromId, "out", quantity),
                               productId, toId, "in", quantity),
            err |-> ""]

\* StockTransferDialog.handleTransfer: the checks of the form, then the
\* server action.  currentStock is the stock the page showed for the source
\* warehouse, empty when it showed none.
handleTransfer(d, uid, orgIdStr, idStr, fromWarehouse, toWarehouse, quantity, currentStock) ==
  IF fromWarehouse = <<>> \/ toWarehouse = <<>>
  THEN [db |-> d, err |-> "Please select both source and destination warehouses"]
  ELSE IF fromWarehouse = toWarehouse
  THEN [db |-> d, err |-> "Source and destination warehouses must be different"]
  ELSE IF quantity <= 0 THEN [db |-> d, err |-> "Please enter a valid quantity"]
  ELSE IF Given(currentStock) /\ quantity > Val(currentStock)
  THEN [db |-> d, err |-> "Insufficient stock"]
  ELSE IF orgIdStr = <<>> \/ idStr = <<>>
  THEN [db |-> d, err |-> "Missing organization or product information"]
  ELSE transferStock(d, uid, orgIdStr, idStr, fromWarehouse, toWarehouse, quantity)

(***************************************************************************)
(* Order management lives outside these actions; of it the model keeps the *)
(* one thing they read: an order of an organization with an item for one   *)
(* of its products.                                                        *)
(***************************************************************************)
placeOrder(d, bigOrgId, productId) ==
  [d EXCEPT !.orders = @ \cup {[order_id |-> d.nextId.order, org_id |-> bigOrgId]},
            !.orderItems = @ \cup {[order_item_id |-> d.nextId.order,
                                    order_id |-> d.nextId.order, product_id |-> productId]},
            !.nextId.order = @ + 1]

(***************************************************************************)
(* lib/cache.  CacheService keeps one entry per organization id, as the    *)
(* caller wrote the id: the listing and the time it was stored.            *)
(***************************************************************************)
CacheEntries(c, orgId) == {e \in c : e.key = orgId}

\* CacheService.invalidateProducts(orgId)
invalidateProducts(c, orgId) == c \ CacheEntries(c, orgId)

\* CacheService.setProducts(orgId, products)
setProducts(c, orgId, products, now) ==
  invalidateProducts(c, orgId)
    \cup {[key |-> orgId, products |-> products, lastModified |-> now]}

\* The inventory actions that write.
WriterOps ==
  {"addProduct", "updateProduct", "deleteProduct", "bulkUpdateProducts",
   "updateProductDetails", "deleteProductDetails", "updateProductStock", "transferStock"}

\* A variant that invalidates whether the action committed or threw.
InvalidatedAlways(op, orgIdStr, r) ==
  IF op \in WriterOps \cup {"handleTransfer"} THEN <<orgIdStr>> ELSE <<>>

\* The keys an inventory action passes to invalidateProducts, in order:
\* none when it threw, its orgId once when its transaction committed (once
\* for a whole batch).  The dialog's handleTransfer gets there through
\* transferStock.
Invalidated(op, orgIdStr, r) ==
  IF op \in WriterOps \cup {"handleTransfer"} /\ r.err = "" THEN <<orgIdStr>> ELSE <<>>

RECURSIVE InvalidateAll(_, _)
InvalidateAll(c, keys) ==
  IF keys = <<>> THEN c
  ELSE InvalidateAll(invalidateProducts(c, Head(keys)), Tail(keys))

\* What follows the transaction of an inventory action.
AfterCommit(c, op, orgIdStr, r) == InvalidateAll(c, Invalidated(op, orgIdStr, r))

\* A cache round-trip can fail; whether CacheService lets the failure out
\* is not in the sources.
CacheFaults == {"none", "throws"}

CacheError == "Cache unavailable"

(***************************************************************************)
(* app/api/inventory/products/route.ts                                     *)
(***************************************************************************)
MaxAgeMinutes == 5

\* cacheAge < maxAge, the clock counting hours.
Fresh(e, now) == (now - e.lastModified) * 60 < MaxAgeMinutes

\* p.productPrices[0]?.retail_price || 0 under orderBy valid_from desc,
\* take 1: the price of any of the newest rows.
ListingPrices(d, productId) ==
  IF LatestPrices(d, productId) = {} THEN {0}
  ELSE {x.retail_price : x \in LatestPrices(d, productId)}

\* mappedProducts: one item per product of the organization.
MappedProducts(d, bigOrgId, price) ==
  { [id |-> NatToStr(p.product_id), name |-> p.name, sku |-> p.sku,
     stock |-> TotalStock({x \in d.stocks : x.product_id = p.product_id}),
     price |-> price[p.product_id]]
    : p \in {p \in d.products : p.org_id = bigOrgId} }

\* The listings findMany and the mapping can produce for an organization.
Listings(d, orgIdStr) ==
  IF ~BigIntOk(orgIdStr) THEN {{}}
  ELSE LET ids == {p.product_id : p \in {p \in d.products : p.org_id = BigInt(orgIdStr)}}
           prices == UNION {ListingPrices(d, id) : id \in ids}
       IN  { MappedProducts(d, BigInt(orgIdStr), price)
             : price \in {f \in [ids -> prices] : \A id \in ids : f[id] \in ListingPrices(d, id)} }

\* GET up to the database read.  xcache is the X-Cache header of the
\* response, or the status of an error response; on a miss tx is what the
\* request goes on to store.
GET(d, c, uid, orgIdStr, mappedProducts) ==
  IF orgIdStr = <<>> THEN [db |-> d, err |-> "orgId required", xcache |-> "400", products |-> {}]
  ELSE
    LET r == getUserRole(d, uid, orgIdStr)
        cached == CacheEntries(c, orgIdStr)
    IN  IF ~hasPermission(r.role, ReaderRoles)
        THEN [db |-> r.db, err |-> "Insufficient permissions", xcache |-> "403",
              products |-> {}]
        ELSE IF \E e \in cached : Fresh(e, r.db.now)
        THEN [db |-> r.db, err |-> "", xcache |-> "HIT",
              products |-> (CHOOSE e \in cached : TRUE).products]
        ELSE [db |-> r.db, err |-> "", xcache |-> "MISS", products |-> mappedProducts,
              tx |-> [op |-> "GET", caller |-> uid, orgId |-> orgIdStr,
                      products |-> mappedProducts]]

(***************************************************************************)
(* The server actions as actions of the model.  Each one applies the       *)
(* handler to db and records the call and its outcome in last.             *)
(***************************************************************************)
Outcome(op, uid, orgIdStr, args, r) ==
  [op |-> op, caller |-> uid, orgId |-> orgIdStr, args |-> args,
   ok |-> r.err = "", err |-> r.err, invalidated |-> Invalidated(op, orgIdStr, r)]

\* One call: r is what the handler returned; a call that would write past a
\* bound of the model (room is FALSE) is not taken.
Call(op, uid, orgIdStr, args, r, room) ==
  /\ r.err = "" => room
  /\ db' = r.db
  /\ inflight' = inflight
  /\ cache' = AfterCommit(cache, op, orgIdStr, r)
  /\ last' = Outcome(op, uid, orgIdStr, args, r)

\* A call of createOrganization: the id it returned stands for the orgId.
CallCreate(uid, name, r) ==
  Call("createOrganization", uid, IF r.err = "" THEN r.ret ELSE <<>>, [name |-> name], r,
       db.nextId.org <= MaxOrgs)

\* A call of deleteOrganization: the tables it deleted from are kept.
CallDelete(uid, orgIdStr, force, r) ==
  Call("deleteOrganization", uid, orgIdStr, [force |-> force, order |-> r.order], r, TRUE)

DoCreateOrganization(uid, name) ==
  LET r == createOrganization(db, uid, name)
  IN  CallCreate(uid, name, r)

DoUpdateOrganization(uid, orgIdStr, name) ==
  LET r == updateOrganization(db, uid, orgIdStr, name)
  IN  Call("updateOrganization", uid, orgIdStr, [name |-> name], r, TRUE)

\* A variant that runs every delete as a forced one.
DoDeleteOrganizationForced(uid, orgIdStr, force) ==
  LET r == deleteOrganization(db, uid, orgIdStr, TRUE)
  IN  CallDelete(uid, orgIdStr, force, r)

DoDeleteOrganization(uid, orgIdStr, force) ==
  LET r == deleteOrganization(db, uid, orgIdStr, force)
  IN  CallDelete(uid, orgIdStr, force, r)

DoInviteEmployee(uid, orgIdStr, email, role) ==
  /\ db.nextId.invite <= MaxInvites
  /\ Call("inviteEmployee", uid, orgIdStr, [email |-> email, role |-> role],
          inviteEmployee(db, uid, orgIdStr, email, role), TRUE)

DoAcceptInvite(uid, token) ==
  LET r == acceptInvite(db, uid, token)
  IN  Call("acceptInvite", uid, <<>>, [token |-> token], r, TRUE)

DoAddProduct(uid, orgIdStr, p) ==
  LET r == addProduct(db, uid, orgIdStr, p)
  IN  Call("addProduct", uid, orgIdStr, p, r, db.nextId.product <= MaxProducts)

\* addProduct whose transaction is ended from outside at the step fault.
DoAddProductInterrupted(uid, orgIdStr, p, fault) ==
  LET r == addProductTx(db, uid, orgIdStr, p, fault)
  IN  Call("addProduct", uid, orgIdStr, p, r, db.nextId.product <= MaxProducts)

\* The price row findFirst may return for the product the id names: any of
\* its rows with the newest valid_from, a row of no product when it has none.
NoPrice == [price_id |-> 0]

LatestChoices(d, idStr) ==
  IF BigIntOk(idStr) /\ LatestPrices(d, BigInt(idStr)) # {}
  THEN LatestPrices(d, BigInt(idStr))
  ELSE {NoPrice}

DoUpdateProduct(uid, orgIdStr, idStr, p) ==
  \E latest \in LatestChoices(db, idStr) :
    Call("updateProduct", uid, orgIdStr, [id |-> idStr, data |-> p],
         updateProduct(db, uid, orgIdStr, idStr, p, latest), TRUE)

DoDeleteProduct(uid, orgIdStr, idStr) ==
  LET r == deleteProduct(db, uid, orgIdStr, idStr)
  IN  Call("deleteProduct", uid, orgIdStr, [id |-> idStr], r, TRUE)

DoBulkUpdateProducts(uid, orgIdStr, updates) ==
  LET r == bulkUpdateProducts(db, uid, orgIdStr, updates)
  IN  Call("bulkUpdateProducts", uid, orgIdStr, [updates |-> updates], r, TRUE)

DoUpdateProductDetails(uid, orgIdStr, idStr, data) ==
  /\ db.nextId.price <= MaxPrices
  /\ Call("updateProductDetails", uid, orgIdStr, [id |-> idStr, data |-> data],
          updateProductDetails(db, uid, orgIdStr, idStr, data), TRUE)

DoDeleteProductDetails(uid, orgIdStr, idStr) ==
  LET r == deleteProductDetails(db, uid, orgIdStr, idStr)
  IN  Call("deleteProductDetails", uid, orgIdStr, [id |-> idStr], r, TRUE)

\* A read: what it returned is kept with the outcome.
CallRead(op, uid, orgIdStr, args, r) ==
  /\ db' = r.db
  /\ inflight' = inflight
  /\ cache' = cache
  /\ last' = [op |-> op, caller |-> uid, orgId |-> orgIdStr, args |-> args,
              ok |-> r.err = "", err |-> r.err, ret |-> r.ret]

DoGetProductDetails(uid, orgIdStr, idStr) ==
  \E latest \in LatestChoices(db, idStr) :
    CallRead("getProductDetails", uid, orgIdStr, [id |-> idStr],
             getProductDetails(db, uid, orgIdStr, idStr, latest))

DoUpdateProductStock(uid, orgIdStr, idStr, warehouseStr, adjustment) ==
  /\ db.nextId.movement <= MaxMovements
  /\ Call("updateProductStock", uid, orgIdStr,
          [id |-> idStr, warehouse |-> warehouseStr, adjustment |-> adjustment],
          updateProductStock(db, uid, orgIdStr, idStr, warehouseStr, adjustment), TRUE)

DoTransferStock(uid, orgIdStr, idStr, fromStr, toStr, quantity) ==
  /\ db.nextId.movement + 1 <= MaxMovements
  /\ Call("transferStock", uid, orgIdStr,
          [id |-> idStr, from |-> fromStr, to |-> toStr, quantity |-> quantity],
          transferStock(db, uid, orgIdStr, idStr, fromStr, toStr, quantity), TRUE)

DoHandleTransfer(uid, orgIdStr, idStr, fromWarehouse, toWarehouse, quantity, currentStock) ==
  /\ db.nextId.movement + 1 <= MaxMovements
  /\ Call("handleTransfer", uid, orgIdStr,
          [id |-> idStr, from |-> fromWarehouse, to |-> toWarehouse, quantity |-> quantity],
          handleTransfer(db, uid, orgIdStr, idStr, fromWarehouse, toWarehouse, quantity,
                         currentStock), TRUE)

\* A transaction has read: r.tx is what it will write.
Begin(r, tid) ==
  /\ r.err = ""
  /\ \A t \in inflight : t.tid # tid
  /\ \A k \in 1..(tid - 1) : \E t \in inflight : t.tid = k
  /\ db' = r.db
  /\ last' = last
  /\ inflight' = inflight \cup {[tid |-> tid, tx |-> r.tx]}
  /\ cache' = cache

\* A transaction in flight writes and returns or throws.
Finish(t, r) ==
  /\ db' = r.db
  /\ last' = Outcome(t.tx.op, t.tx.caller, t.tx.orgId, t.tx.args, r)
  /\ inflight' = inflight \ {t}
  /\ cache' = AfterCommit(cache, t.tx.op, t.tx.orgId, r)

BeginUpdateProductStock(uid, orgIdStr, idStr, warehouseStr, adjustment, tid) ==
  Begin(updateProductStockRead(db, uid, orgIdStr, idStr, warehouseStr, adjustment), tid)

FinishUpdateProductStock ==
  \E t \in inflight :
    /\ t.tx.op = "updateProductStock"
    /\ db.nextId.movement <= MaxMovements
    /\ Finish(t, updateProductStockWrite(db, t.tx))

BeginTransferStock(uid, orgIdStr, idStr, fromStr, toStr, quantity, tid) ==
  Begin(transferStockRead(db, uid, orgIdStr, idStr, fromStr, toStr, quantity), tid)

FinishTransferStock ==
  \E t \in inflight :
    /\ t.tx.op = "transferStock"
    /\ db.nextId.movement + 1 <= MaxMovements
    /\ Finish(t, transferStockWrite(db, t.tx))

BeginInviteEmployee(uid, orgIdStr, email, role, tid) ==
  Begin(inviteEmployeeRead(db, uid, orgIdStr, email, role), tid)

FinishInviteEmployee ==
  \E t \in inflight :
    /\ t.tx.op = "inviteEmployee"
    /\ db.nextId.invite <= MaxInvites
    /\ Finish(t, inviteEmployeeWrite(db, t.tx))

BeginAcceptInvite(uid, token, tid) ==
  Begin(acceptInviteRead(db, uid, token), tid)

FinishAcceptInvite ==
  \E t \in inflight :
    /\ t.tx.op = "acceptInvite"
    /\ Finish(t, acceptInviteWrite(db, t.tx))

\* Time passes.
TickHours == InviteTtl \div 2

Tick ==
  /\ db.now + TickHours <= MaxNow
  /\ db' = [db EXCEPT !.now = @ + TickHours]
  /\ last' = [op |-> "tick"]
  /\ inflight' = inflight
  /\ cache' = cache

\* A products request from its first line to its response.
DoGET(uid, orgIdStr) ==
  \E mappedProducts \in Listings(db, orgIdStr) :
    LET r == GET(db, cache, uid, orgIdStr, mappedProducts)
    IN  /\ db' = r.db
        /\ inflight' = inflight
        /\ cache' = IF r.xcache = "MISS"
                    THEN setProducts(cache, orgIdStr, r.products, r.db.now)
                    ELSE cache
        /\ last' = [op |-> "GET", caller |-> uid, orgId |-> orgIdStr, ok |-> r.err = "",
                    err |-> r.err, xcache |-> r.xcache, products |-> r.products]

\* A products request misses the cache and reads the database.
BeginGET(uid, orgIdStr, tid) ==
  \E mappedProducts \in Listings(db, orgIdStr) :
    /\ GET(db, cache, uid, orgIdStr, mappedProducts).xcache = "MISS"
    /\ Begin(GET(db, cache, uid, orgIdStr, mappedProducts), tid)

\* A request that missed stores what it read and answers.
FinishGET ==
  \E t \in inflight :
    /\ t.tx.op = "GET"
    /\ db' = db
    /\ inflight' = inflight \ {t}
    /\ cache' = setProducts(cache, t.tx.orgId, t.tx.products, db.now)
    /\ last' = [op |-> "GET", caller |-> t.tx.caller, orgId |-> t.tx.orgId, ok |-> TRUE,
                err |-> "", xcache |-> "MISS", products |-> t.tx.products]

\* The transaction of an inventory action has committed: what is left of
\* the action is the invalidation and the return.
Committed(op, uid, orgIdStr, args, r) ==
  [db |-> r.db, err |-> "",
   tx |-> [op |-> op, caller |-> uid, orgId |-> orgIdStr, args |-> args, err |-> "",
           committed |-> TRUE]]

\* An inventory action up to the end of its transaction: it throws, or it
\* commits and goes on.
Commit(op, uid, orgIdStr, args, r, room, tid) ==
  IF r.err # "" THEN Call(op, uid, orgIdStr, args, r, TRUE)
  ELSE room /\ Begin(Committed(op, uid, orgIdStr, args, r), tid)

CommitAddProduct(uid, orgIdStr, p, tid) ==
  Commit("addProduct", uid, orgIdStr, p, addProduct(db, uid, orgIdStr, p),
         db.nextId.product <= MaxProducts, tid)

CommitUpdateProduct(uid, orgIdStr, idStr, p, tid) ==
  \E latest \in LatestChoices(db, idStr) :
    Commit("updateProduct", uid, orgIdStr, [id |-> idStr, data |-> p],
           updateProduct(db, uid, orgIdStr, idStr, p, latest), TRUE, tid)

CommitDeleteProduct(uid, orgIdStr, idStr, tid) ==
  Commit("deleteProduct", uid, orgIdStr, [id |-> idStr],
         deleteProduct(db, uid, orgIdStr, idStr), TRUE, tid)

CommitBulkUpdateProducts(uid, orgIdStr, updates, tid) ==
  Commit("bulkUpdateProducts", uid, orgIdStr, [updates |-> updates],
         bulkUpdateProducts(db, uid, orgIdStr, updates), TRUE, tid)

CommitUpdateProductDetails(uid, orgIdStr, idStr, data, tid) ==
  Commit("updateProductDetails", uid, orgIdStr, [id |-> idStr, data |-> data],
         updateProductDetails(db, uid, orgIdStr, idStr, data),
         db.nextId.price <= MaxPrices, tid)

CommitDeleteProductDetails(uid, orgIdStr, idStr, tid) ==
  Commit("deleteProductDetails", uid, orgIdStr, [id |-> idStr],
         deleteProductDetails(db, uid, orgIdStr, idStr), TRUE, tid)

CommitUpdateProductStock(uid, orgIdStr, idStr, warehouseStr, adjustment, tid) ==
  Commit("updateProductStock", uid, orgIdStr,
         [id |-> idStr, warehouse |-> warehouseStr, adjustment |-> adjustment],
         updateProductStock(db, uid, orgIdStr, idStr, warehouseStr, adjustment),
         db.nextId.movement <= MaxMovements, tid)

CommitTransferStock(uid, orgIdStr, idStr, fromStr, toStr, quantity, tid) ==
  Commit("transferStock", uid, orgIdStr,
         [id |-> idStr, from |-> fromStr, to |-> toStr, quantity |-> quantity],
         transferStock(db, uid, orgIdStr, idStr, fromStr, toStr, quantity),
         db.nextId.movement + 1 <= MaxMovements, tid)

\* The rest of a committed action: await invalidateProducts(orgId), inside
\* the try block, then the return; a rejected await goes to the catch
\* block, which throws it on.
InvalidateAndReturn(fault) ==
  \E t \in inflight :
    /\ t.tx.op \in WriterOps
    /\ db' = db
    /\ inflight' = inflight \ {t}
    /\ cache' = IF fault = "none" THEN AfterCommit(cache, t.tx.op, t.tx.orgId, t.tx)
                ELSE cache
    /\ last' = IF fault = "none"
               THEN Outcome(t.tx.op, t.tx.caller, t.tx.orgId, t.tx.args, t.tx)
               ELSE [Outcome(t.tx.op, t.tx.caller, t.tx.orgId, t.tx.args, t.tx)
                       EXCEPT !.ok = FALSE, !.err = CacheError, !.invalidated = <<>>]

DoPlaceOrder ==
  \E x \in db.products :
    /\ db.nextId.order <= MaxOrders
    /\ db' = placeOrder(db, x.org_id, x.product_id)
    /\ inflight' = inflight
    /\ cache' = cache
    /\ last' = [op |-> "placeOrder", caller |-> NoPrincipal, orgId |-> NatToStr(x.org_id),
                args |-> [id |-> NatToStr(x.product_id)], ok |-> TRUE, err |-> ""]

(***************************************************************************)
(* Inputs.                                                                 *)
(***************************************************************************)
Init ==
  /\ \E fk \in LedgerFks : db = [EmptyDb EXCEPT !.ledgerFk = fk]
  /\ last = [op |-> "none"]
  /\ inflight = {}
  /\ cache = {}

\* The same start for the operations that delete nothing.
InitNoDeletes == db = EmptyDb /\ last = [op |-> "none"] /\ inflight = {} /\ cache = {}

\* Ids as callers pass them: the decimal strings of the ids ever allocated.
IdStrs(max) == {NatToStr(i) : i \in 1..max}

\* The id of the first organization, product and warehouse.
FirstId == <<"1">>

NameInputs == {<<"a">>, <<"A">>, <<"a", " ">>, <<"b">>, <<" ">>}

PlainProduct == [name |-> <<"a">>, sku |-> <<"a">>, stock |-> 1, price |-> 1]

(***************************************************************************)
(* Organization names: organizations are created and renamed.              *)
(***************************************************************************)
NextNames ==
  \/ \E uid \in Principals, name \in NameInputs : DoCreateOrganization(uid, name)
  \/ \E uid \in Principals, o \in IdStrs(MaxOrgs), name \in NameInputs :
       DoUpdateOrganization(uid, o, name)

SpecNames == InitNoDeletes /\ [][NextNames]_vars

\* The organizations of a creator whose name is the name up to case.
OwnedWithName(d, uid, name) ==
  {o \in d.orgs : o.created_by = uid /\ ToLowerCase(o.name) = ToLowerCase(name)}

\* C5: createOrganization by a creator who already owns an organization whose
\* name equals the trimmed new name, ignoring case, fails and creates neither
\* an organization nor a member row; with a name that is not blank and that
\* only other creators use, it succeeds and the organization is there.
C5_DuplicateNamePerCreator ==
  [][ (last'.op = "createOrganization" /\ last'.caller \in Principals)
        => LET name == Trim(last'.args.name)
           IN  /\ OwnedWithName(db, last'.caller, name) # {}
                    => /\ ~last'.ok
                       /\ db'.orgs = db.orgs
                       /\ db'.members = db.members
               /\ (name # <<>> /\ OwnedWithName(db, last'.caller, name) = {})
                    => /\ last'.ok
                       /\ \E o \in db'.orgs \ db.orgs :
                            /\ o.created_by = last'.caller
                            /\ o.name = name
                            /\ NatToStr(o.org_id) = last'.orgId ]_vars

\* A creator is refused a name that differs from the name of their own
\* organization only by case and trailing space, while another creator holds
\* an organization of that very name.
C5_Witness ==
  /\ last.op = "createOrganization"
  /\ ~last.ok
  /\ last.args.name = <<"a", " ">>
  /\ \E o1, o2 \in db.orgs :
       /\ o1.created_by = last.caller /\ o1.name = <<"A">>
       /\ o2.created_by # last.caller /\ o2.name = <<"A">>

\* C6: in every reachable state no two organizations of the same creator
\* have names that are equal up to case.
C6_UniqueNamePerCreator ==
  \A o1, o2 \in db.orgs :
    (o1.created_by = o2.created_by /\ ToLowerCase(o1.name) = ToLowerCase(o2.name))
      => o1.org_id = o2.org_id

(***************************************************************************)
(* Organization deletion: organizations are created, get invitations and   *)
(* are deleted, while the first of them is given a product, stock          *)
(* movements and an order.                                                 *)
(***************************************************************************)
NextDelete ==
  \/ \E uid \in Principals : DoCreateOrganization(uid, <<"a">>)
  \/ \E uid \in Principals, o \in IdStrs(MaxOrgs), force \in BOOLEAN :
       DoDeleteOrganization(uid, o, force)
  \/ \E x \in db.orgs : DoInviteEmployee(x.created_by, NatToStr(x.org_id), <<"a">>, "admin")
  \/ \E uid \in Principals : DoAddProduct(uid, FirstId, PlainProduct)
  \/ \E uid \in Principals : DoUpdateProductStock(uid, FirstId, FirstId, FirstId, 1)
  \/ DoPlaceOrder

SpecDelete == Init /\ [][NextDelete]_vars

\* The organization has at least one warehouse, product or order.
HasDependentData(d, o) ==
  \/ \E w \in d.warehouses : w.org_id = o
  \/ \E p \in d.products : p.org_id = o
  \/ \E x \in d.orders : x.org_id = o

\* C7: deleteOrganization with force=false on an organization that has a
\* warehouse, a product or an order fails, and the organization and every
\* member, invite, warehouse, product, stock, price, order and order-item row
\* are as they were.
C7_PlainDeleteRefused ==
  [][ ( /\ last'.op = "deleteOrganization"
        /\ ~last'.args.force
        /\ BigIntOk(last'.orgId)
        /\ \E o \in db.orgs : o.org_id = BigInt(last'.orgId)
        /\ HasDependentData(db, BigInt(last'.orgId)) )
        => /\ ~last'.ok
           /\ \A t \in {"orgs", "members", "invites", "warehouses", "products",
                         "stocks", "prices", "orders", "orderItems"} : db'[t] = db[t] ]_vars

\* An admin is refused the plain delete of an organization that has a
\* product, an order and a pending invitation.
C7_Witness ==
  /\ last.op = "deleteOrganization"
  /\ ~last.args.force
  /\ last.err = "Cannot delete organization. It contains data"
  /\ LET o == BigInt(last.orgId)
     IN  /\ \E p \in db.products : p.org_id = o
         /\ \E x \in db.orders : x.org_id = o
         /\ \E i \in db.invites : i.org_id = o

\* The caller is the creator of the organization or one of its admins.
IsAdminOf(d, uid, o) ==
  \/ \E x \in d.orgs : x.org_id = o /\ x.created_by = uid
  \/ /\ \E x \in d.orgs : x.org_id = o
     /\ \E m \in d.members : m.org_id = o /\ m.user_id = uid /\ m.role = "admin"

\* The rows of d that refer to the organization, directly or through the
\* products, warehouses and orders it had in the state before.
RowsReferring(before, d, o) ==
  LET productIds == {p.product_id : p \in {p \in before.products : p.org_id = o}}
      warehouseIds == {w.warehouse_id : w \in {w \in before.warehouses : w.org_id = o}}
      orderIds == {x.order_id : x \in {x \in before.orders : x.org_id = o}}
  IN  {x \in d.orgs \cup d.members \cup d.invites \cup d.warehouses
                \cup d.products \cup d.orders : x.org_id = o}
      \cup {x \in d.stocks \cup d.movements :
               x.product_id \in productIds \/ x.warehouse_id \in warehouseIds}
      \cup {x \in d.prices : x.product_id \in productIds}
      \cup {x \in d.orderItems : x.order_id \in orderIds \/ x.product_id \in productIds}

\* C8: deleteOrganization with force=true by an admin on an organization
\* with dependent data succeeds; it deletes order items, orders, prices,
\* stock, products, warehouses, invites, members and the organization in
\* that order; no row that refers to the organization, directly or through
\* its products, warehouses or orders, is left; and ensureOrganizationMember
\* for the organization then fails with not-found.
C8_ForceDeleteRemovesAll ==
  [][ ( /\ last'.op = "deleteOrganization"
        /\ last'.args.force
        /\ BigIntOk(last'.orgId)
        /\ IsAdminOf(db, last'.caller, BigInt(last'.orgId))
        /\ HasDependentData(db, BigInt(last'.orgId)) )
        => /\ last'.ok
           /\ last'.args.order = <<"orderItems", "orders", "prices", "stocks", "products",
                                   "warehouses", "invites", "members", "orgs">>
           /\ RowsReferring(db, db', BigInt(last'.orgId)) = {}
           /\ ensureOrganizationMember(db', last'.caller, last'.orgId).err
                = "Organization not found" ]_vars

(***************************************************************************)
(* Product SKUs: the products of two organizations are added and have      *)
(* their SKU rewritten by each of the actions that can write it.           *)
(***************************************************************************)
SkuInputs == {<<"a">>, <<"a", " ">>, <<"b">>}

ProductWithSku(sku) == [name |-> <<"a">>, sku |-> sku, stock |-> 1, price |-> 1]

\* The product data of addProduct and updateProduct.
SkuProducts == {ProductWithSku(sku) : sku \in SkuInputs}

\* The update lists of bulkUpdateProducts: one item that sets the SKU.
SkuBulkUpdates ==
  { <<[id |-> id, name |-> {}, sku |-> {sku}, stock |-> {}, price |-> {}, latest |-> NoPrice]>>
    : id \in IdStrs(MaxProducts), sku \in SkuInputs }

\* The data of updateProductDetails: the SKU alone.
SkuDetails == {[name |-> {}, sku |-> {sku}, price |-> {}] : sku \in SkuInputs}

NextSku ==
  \/ \E name \in {<<"a">>, <<"b">>} : DoCreateOrganization("u1", name)
  \/ \E o \in IdStrs(MaxOrgs), p \in SkuProducts : DoAddProduct("u1", o, p)
  \/ \E o \in IdStrs(MaxOrgs), id \in IdStrs(MaxProducts), p \in SkuProducts :
       DoUpdateProduct("u1", o, id, p)
  \/ \E o \in IdStrs(MaxOrgs), updates \in SkuBulkUpdates :
       DoBulkUpdateProducts("u1", o, updates)
  \/ \E o \in IdStrs(MaxOrgs), id \in IdStrs(MaxProducts), data \in SkuDetails :
       DoUpdateProductDetails("u1", o, id, data)

\* The start of a build with either schema for the SKU.
InitSku ==
  /\ \E sku \in SkuConstraints : db = [EmptyDb EXCEPT !.skuUnique = sku]
  /\ last = [op |-> "none"]
  /\ inflight = {}
  /\ cache = {}

SpecSku == InitSku /\ [][NextSku]_vars

\* C9: addProduct with a SKU that, trimmed, is the SKU of a product of the
\* same organization fails and creates no product, stock or price row; with a
\* SKU that only products of other organizations carry, it succeeds.
C9_DuplicateSkuPerOrg ==
  [][ ( /\ last'.op = "addProduct"
        /\ BigIntOk(last'.orgId)
        /\ IsAdminOf(db, last'.caller, BigInt(last'.orgId)) )
        => LET o == BigInt(last'.orgId)
               sku == Trim(last'.args.sku)
               taken == \E p \in db.products : p.org_id = o /\ p.sku = sku
           IN  /\ taken => /\ ~last'.ok
                           /\ db'.products = db.products
                           /\ db'.stocks = db.stocks
                           /\ db'.prices = db.prices
               /\ (~taken /\ sku # <<>> /\ Trim(last'.args.name) # <<>>)
                    => /\ last'.ok
                       /\ \E p \in db'.products \ db.products : p.org_id = o /\ p.sku = sku ]_vars

\* The SKU "a " is refused in an organization that has a product "a" while
\* another organization has a product "a" of its own.
C9_Witness ==
  /\ last.op = "addProduct"
  /\ ~last.ok
  /\ last.args.sku = <<"a", " ">>
  /\ \E p1, p2 \in db.products :
       /\ p1.org_id = BigInt(last.orgId) /\ p1.sku = <<"a">>
       /\ p2.org_id # BigInt(last.orgId) /\ p2.sku = <<"a">>

\* C10: in every reachable state no two products of the same organization
\* have the same SKU.
C10_UniqueSkuPerOrg ==
  \A p1, p2 \in db.products :
    (p1.org_id = p2.org_id /\ p1.sku = p2.sku) => p1.product_id = p2.product_id

(***************************************************************************)
(* New products: organizations are created, products are added with any    *)
(* stock and price, the transaction of addProduct may be ended from        *)
(* outside, and the details of products are read.                          *)
(***************************************************************************)
StockedProducts ==
  { [name |-> <<"a">>, sku |-> sku, stock |-> s, price |-> pr]
    : sku \in {<<"a">>, <<"b">>}, s \in {-1, 0, MaxQty}, pr \in {-1, MaxQty} }

NextProduct ==
  \/ DoCreateOrganization("u1", <<"a">>)
  \/ \E uid \in Principals, o \in IdStrs(MaxOrgs), p \in StockedProducts, fault \in TxFaults :
       DoAddProductInterrupted(uid, o, p, fault)
  \/ \E uid \in Principals, o \in IdStrs(MaxOrgs), id \in IdStrs(MaxProducts) :
       DoGetProductDetails(uid, o, id)

SpecProduct == InitNoDeletes /\ [][NextProduct]_vars

\* C11: a successful addProduct with stock s and price p leaves the product
\* with exactly one stock row, of quantity max(0, s), in a warehouse of the
\* organization named 'Default Warehouse', and exactly one price row, of
\* retail price max(0, p) and no valid_to; getProductDetails called next by
\* the same principal reports totalStock max(0, s), currentPrice max(0, p),
\* one price-history entry and one warehouse.
C11_AddProductThenDetails ==
  [][ /\ (last'.op = "addProduct" /\ last'.ok)
          => LET id == db.nextId.product
                 o == BigInt(last'.orgId)
                 stocks == {x \in db'.stocks : x.product_id = id}
                 prices == {x \in db'.prices : x.product_id = id}
             IN  /\ Cardinality(stocks) = 1
                 /\ \A x \in stocks :
                      /\ x.quantity = Max(0, last'.args.stock)
                      /\ \E w \in db'.warehouses : /\ w.warehouse_id = x.warehouse_id
                                                    /\ w.org_id = o
                                                    /\ w.name = DefaultWarehouseName
                 /\ Cardinality(prices) = 1
                 /\ \A x \in prices : /\ x.retail_price = Max(0, last'.args.price)
                                      /\ x.valid_to = NoDate
      /\ ( /\ last.op = "addProduct"
           /\ last.ok
           /\ last'.op = "getProductDetails"
           /\ last'.caller = last.caller
           /\ last'.orgId = last.orgId
           /\ last'.args.id = NatToStr(db.nextId.product - 1) )
          => /\ last'.ok
             /\ last'.ret.totalStock = Max(0, last.args.stock)
             /\ last'.ret.currentPrice = Max(0, last.args.price)
             /\ last'.ret.priceHistory = 1
             /\ Cardinality(last'.ret.warehouses) = 1
             /\ \A w \in last'.ret.warehouses : /\ w.name = DefaultWarehouseName
                                                 /\ w.stock = Max(0, last.args.stock) ]_vars

\* The details of a product added with the largest stock and price are read.
C11_Witness ==
  /\ last.op = "getProductDetails"
  /\ last.ok
  /\ last.ret.totalStock = MaxQty
  /\ last.ret.currentPrice = MaxQty
  /\ last.ret.priceHistory = 1

\* The details of a product added with a negative stock and price are read.
C11_WitnessNegative ==
  /\ last.op = "getProductDetails"
  /\ last.ok
  /\ last.ret.totalStock = 0
  /\ last.ret.currentPrice = 0
  /\ db.nextId.product = 2

\* C12: an addProduct that fails leaves no product, warehouse, stock or price
\* row behind.
C12_AddProductAllOrNothing ==
  [][ (last'.op = "addProduct" /\ ~last'.ok)
        => /\ db'.products = db.products
           /\ db'.warehouses = db.warehouses
           /\ db'.stocks = db.stocks
           /\ db'.prices = db.prices ]_vars

(***************************************************************************)
(* Stock: one principal creates organizations and adds products, which     *)
(* gives each organization its warehouse; the stock of the first product   *)
(* is adjusted, overwritten and moved between the warehouses.              *)
(***************************************************************************)
Adjustments == {0 - MaxQty, -1, 1}

\* The warehouses of the first two organizations.
StockWarehouses == {<<"1">>, <<"2">>}

StockProducts == {[name |-> <<"a">>, sku |-> <<"a">>, stock |-> s, price |-> 1] : s \in {-1, MaxQty}}

StockBulkUpdates ==
  { <<[id |-> FirstId, name |-> {}, sku |-> {}, stock |-> {s}, price |-> {}, latest |-> NoPrice]>>
    : s \in {-1, 1} }

NextStock ==
  \/ \E name \in {<<"a">>, <<"b">>} : DoCreateOrganization("u1", name)
  \/ \E o \in StockWarehouses : DoAddProduct("u1", o, PlainProduct)
  \/ \E p \in StockProducts : DoUpdateProduct("u1", FirstId, FirstId, p)
  \/ \E updates \in StockBulkUpdates : DoBulkUpdateProducts("u1", FirstId, updates)
  \/ \E w \in StockWarehouses, adjustment \in Adjustments :
       DoUpdateProductStock("u1", FirstId, FirstId, w, adjustment)
  \/ \E from \in StockWarehouses, to \in StockWarehouses, quantity \in {1, MaxQty} :
       DoTransferStock("u1", FirstId, FirstId, from, to, quantity)
  \/ \E from \in StockWarehouses, to \in StockWarehouses :
       DoHandleTransfer("u1", FirstId, FirstId, from, to, 1, {})

SpecStock == InitNoDeletes /\ [][NextStock]_vars

\* The quantity of a (product, warehouse) pair, 0 when it has no stock row.
QuantityAt(d, productId, warehouseId) ==
  IF StockRows(d, productId, warehouseId) = {} THEN 0
  ELSE (CHOOSE x \in StockRows(d, productId, warehouseId) : TRUE).quantity

\* The ledger rows a step appended.
Appended(before, after) == after.movements \ before.movements

\* A transfer between warehouses whose ids parse.
IsTransfer(l) ==
  /\ l.op = "transferStock"
  /\ BigIntOk(l.args.id) /\ BigIntOk(l.args.from) /\ BigIntOk(l.args.to)

\* C13: a successful transferStock of qty units from warehouse A to another
\* warehouse B decreases A's quantity by qty, increases B's by qty (B's row
\* is created at qty when it had none), appends exactly two ledger rows,
\* 'out' at A and 'in' at B, each of quantity qty, and leaves the product's
\* total stock unchanged.
C13_TransferMovesExactly ==
  [][ (IsTransfer(last') /\ last'.ok /\ BigInt(last'.args.from) # BigInt(last'.args.to))
        => LET id == BigInt(last'.args.id)
               a == BigInt(last'.args.from)
               b == BigInt(last'.args.to)
               qty == last'.args.quantity
               new == Appended(db, db')
           IN  /\ QuantityAt(db', id, a) = QuantityAt(db, id, a) - qty
               /\ QuantityAt(db', id, b) = QuantityAt(db, id, b) + qty
               /\ Cardinality(StockRows(db', id, b)) = 1
               /\ Cardinality(new) = 2
               /\ \E x \in new : /\ x.type = "out" /\ x.warehouse_id = a
                                  /\ x.product_id = id /\ x.quantity = qty
               /\ \E x \in new : /\ x.type = "in" /\ x.warehouse_id = b
                                  /\ x.product_id = id /\ x.quantity = qty
               /\ db'.movements \cap db.movements = db.movements
               /\ TotalStock({x \in db'.stocks : x.product_id = id})
                    = TotalStock({x \in db.stocks : x.product_id = id}) ]_vars

\* A transfer into a warehouse that had no stock row of the product.
C13_Witness ==
  /\ IsTransfer(last) /\ last.ok
  /\ last.args.from = <<"1">> /\ last.args.to = <<"2">>
  /\ QuantityAt(db, 1, 2) = last.args.quantity
  /\ last.args.quantity = MaxQty

\* A transfer into a warehouse that already had stock of the product.
C13_WitnessExisting ==
  /\ IsTransfer(last) /\ last.ok
  /\ last.args.from = <<"1">> /\ last.args.to = <<"2">>
  /\ QuantityAt(db, 1, 2) > last.args.quantity

\* C14: transferStock of more than the source warehouse holds, or from a
\* warehouse with no stock row of the product, fails and leaves every stock
\* row and the ledger as they were.
C14_TransferShortRefused ==
  [][ ( /\ IsTransfer(last')
        /\ \/ StockRows(db, BigInt(last'.args.id), BigInt(last'.args.from)) = {}
           \/ last'.args.quantity > QuantityAt(db, BigInt(last'.args.id), BigInt(last'.args.from)) )
        => /\ ~last'.ok
           /\ db'.stocks = db.stocks
           /\ db'.movements = db.movements ]_vars

\* A transfer of more than the source holds is refused.
C14_Witness ==
  /\ IsTransfer(last) /\ ~last.ok
  /\ last.err = "Insufficient stock in source warehouse"
  /\ StockRows(db, BigInt(last.args.id), BigInt(last.args.from)) # {}
  /\ last.args.quantity > QuantityAt(db, BigInt(last.args.id), BigInt(last.args.from))
  /\ QuantityAt(db, BigInt(last.args.id), BigInt(last.args.from)) > 0

\* A transfer from a warehouse without a stock row is refused.
C14_WitnessAbsent ==
  /\ IsTransfer(last) /\ ~last.ok
  /\ last.err = "Insufficient stock in source warehouse"
  /\ StockRows(db, BigInt(last.args.id), BigInt(last.args.from)) = {}
  /\ db.stocks # {}

\* C15: transferStock with the source warehouse equal to the destination is
\* rejected and changes no stock row and no ledger row.
C15_SameWarehouseRejected ==
  [][ (IsTransfer(last') /\ BigInt(last'.args.from) = BigInt(last'.args.to))
        => /\ ~last'.ok
           /\ db'.stocks = db.stocks
           /\ db'.movements = db.movements ]_vars

\* An adjustment of a product and a warehouse that exist, by a caller who
\* may write.
IsAdjustment(d, l) ==
  /\ l.op = "updateProductStock"
  /\ BigIntOk(l.orgId) /\ BigIntOk(l.args.id) /\ BigIntOk(l.args.warehouse)
  /\ IsAdminOf(d, l.caller, BigInt(l.orgId))
  /\ StockRefsExist(d, BigInt(l.args.id), BigInt(l.args.warehouse))

\* C16: updateProductStock with adjustment d on a pair of quantity q (0
\* without a stock row): when q + d >= 0 the quantity becomes q + d and
\* exactly one ledger row is appended, of quantity |d|, 'in' for a positive
\* and 'out' for a negative d; when q + d < 0 the call fails and the stock
\* rows and the ledger stay as they were.
C16_AdjustStock ==
  [][ IsAdjustment(db, last')
        => LET id == BigInt(last'.args.id)
               w == BigInt(last'.args.warehouse)
               d == last'.args.adjustment
               q == QuantityAt(db, id, w)
               new == Appended(db, db')
           IN  IF q + d >= 0
               THEN /\ last'.ok
                    /\ QuantityAt(db', id, w) = q + d
                    /\ Cardinality(StockRows(db', id, w)) = 1
                    /\ \A x \in db.stocks \ StockRows(db, id, w) : x \in db'.stocks
                    /\ Cardinality(new) = 1
                    /\ db.movements \subseteq db'.movements
                    /\ \A x \in new : /\ x.quantity = (IF d >= 0 THEN d ELSE 0 - d)
                                       /\ x.product_id = id /\ x.warehouse_id = w
                                       /\ (d > 0 => x.type = "in")
                                       /\ (d < 0 => x.type = "out")
               ELSE /\ ~last'.ok
                    /\ db'.stocks = db.stocks
                    /\ db'.movements = db.movements ]_vars

\* A stock of MaxQty is lowered by one, which appends an 'out' row.
C16_Witness ==
  /\ last.op = "updateProductStock" /\ last.ok
  /\ last.args.adjustment = -1
  /\ QuantityAt(db, BigInt(last.args.id), BigInt(last.args.warehouse)) = MaxQty - 1
  /\ \E x \in db.movements : x.type = "out" /\ x.quantity = 1

\* An adjustment below zero is refused.
C16_WitnessRefused ==
  /\ last.op = "updateProductStock" /\ ~last.ok
  /\ last.err = "Insufficient stock for this adjustment"
  /\ QuantityAt(db, BigInt(last.args.id), BigInt(last.args.warehouse)) > 0

(***************************************************************************)
(* Stock under concurrent calls: adjustments and transfers of the first    *)
(* product run in two steps, so that one reads between the read and the    *)
(* write of another; products are added and overwritten in between.        *)
(***************************************************************************)
MaxInflight == 2      \* transactions that have read and not yet written

Tids == 1..MaxInflight

NegativeStockProduct == [PlainProduct EXCEPT !.stock = -1]

NegativeStockBulkUpdate ==
  <<[id |-> FirstId, name |-> {}, sku |-> {}, stock |-> {-1}, price |-> {}, latest |-> NoPrice]>>

\* The start: two organizations of one principal, a product in each, which
\* gave each organization its warehouse.
TwoWarehouses ==
  LET d1 == createOrganization(EmptyDb, "u1", <<"a">>).db
      d2 == createOrganization(d1, "u1", <<"b">>).db
      d3 == addProduct(d2, "u1", <<"1">>, PlainProduct).db
  IN  addProduct(d3, "u1", <<"2">>, PlainProduct).db

InitStockRace == db = TwoWarehouses /\ last = [op |-> "none"] /\ inflight = {} /\ cache = {}

NextStockRace ==
  \/ DoUpdateProduct("u1", FirstId, FirstId, NegativeStockProduct)
  \/ DoBulkUpdateProducts("u1", FirstId, NegativeStockBulkUpdate)
  \/ \E adjustment \in {-1, 1}, tid \in Tids :
       BeginUpdateProductStock("u1", FirstId, FirstId, FirstId, adjustment, tid)
  \/ FinishUpdateProductStock
  \/ \E tid \in Tids : BeginTransferStock("u1", FirstId, FirstId, FirstId, <<"2">>, 1, tid)
  \/ FinishTransferStock

SpecStockRace == InitStockRace /\ [][NextStockRace]_vars

\* C17: in every reachable state every stock row has a quantity >= 0.
C17_StockNeverNegative ==
  \A x \in db.stocks : x.quantity >= 0

\* Stock was offered a negative value and a stock row went down to zero.
C17_Witness ==
  /\ last.op \in {"updateProduct", "bulkUpdateProducts"}
  /\ last.ok
  /\ \E x \in db.stocks : x.quantity = 0
  /\ db.movements # {}

\* Two decrements read the same stock of one; both have written, and the
\* row is at zero with two 'out' rows in the ledger.
C17_WitnessRace ==
  /\ last.op = "updateProductStock" /\ last.ok
  /\ inflight = {}
  /\ db.prices = {x \in db.prices : x.retail_price = 1 /\ x.valid_to = NoDate}
  /\ \E x \in db.stocks : x.product_id = 1 /\ x.warehouse_id = 1 /\ x.quantity = 0
  /\ Cardinality({x \in db.movements : x.type = "out" /\ x.warehouse_id = 1}) = 2
  /\ Cardinality(db.movements) = 2

\* Stock adjustments and transfers alone, each as a read step and a write
\* step, two in flight.
NextAdjustRace ==
  \/ \E adjustment \in {-1, 1}, tid \in Tids :
       BeginUpdateProductStock("u1", FirstId, FirstId, FirstId, adjustment, tid)
  \/ FinishUpdateProductStock
  \/ \E tid \in Tids : BeginTransferStock("u1", FirstId, FirstId, FirstId, <<"2">>, 1, tid)
  \/ FinishTransferStock

SpecAdjustRace == InitStockRace /\ [][NextAdjustRace]_vars

\* A call of op returns or throws in this step.
Returns(op) == last'.op = op /\ inflight' \subseteq inflight

\* C24: every updateProductStock that commits leaves its pair at the
\* quantity the pair had when it wrote plus its adjustment, and every
\* transferStock that commits lowers its source and raises its destination
\* by its quantity from what they were when it wrote; so two that run
\* concurrently on one pair and both commit add up, and none writes a
\* quantity computed from a value another call has overwritten.
C24_NoLostUpdate ==
  [][ /\ (Returns("updateProductStock") /\ last'.ok)
          => QuantityAt(db', BigInt(last'.args.id), BigInt(last'.args.warehouse))
               = QuantityAt(db, BigInt(last'.args.id), BigInt(last'.args.warehouse))
                   + last'.args.adjustment
      /\ ( /\ Returns("transferStock") /\ last'.ok
           /\ BigInt(last'.args.from) # BigInt(last'.args.to) )
          => /\ QuantityAt(db', BigInt(last'.args.id), BigInt(last'.args.from))
                  = QuantityAt(db, BigInt(last'.args.id), BigInt(last'.args.from))
                      - last'.args.quantity
             /\ QuantityAt(db', BigInt(last'.args.id), BigInt(last'.args.to))
                  = QuantityAt(db, BigInt(last'.args.id), BigInt(last'.args.to))
                      + last'.args.quantity ]_vars

(***************************************************************************)
(* Invitations: the second principal creates an organization and invites   *)
(* by e-mail; both principals redeem tokens, in one step or with the       *)
(* checks and the transaction apart, while the clock runs.                 *)
(***************************************************************************)
InviteEmails == {<<"A">>, <<"b">>}

\* A third principal, whose e-mail is "b", owns the organization.
Inviter == "u3"

InvitedRoles == {"reader", "writer"}

NextInvite ==
  \/ DoCreateOrganization(Inviter, <<"a">>)
  \/ \E email \in InviteEmails, role \in InvitedRoles :
       DoInviteEmployee(Inviter, FirstId, email, role)
  \/ \E uid \in Principals, token \in IdStrs(MaxInvites) : DoAcceptInvite(uid, token)
  \/ \E uid \in Principals, token \in IdStrs(MaxInvites), tid \in Tids :
       BeginAcceptInvite(uid, token, tid)
  \/ FinishAcceptInvite
  \/ Tick

SpecInvite == InitNoDeletes /\ [][NextInvite]_vars

\* The invites a token names.
InvitesOf(d, token) == {i \in d.invites : i.token = Trim(token)}

\* The e-mail the users table holds for a principal, or will hold once the
\* principal's row is created.
StoredEmail(d, uid) ==
  IF \E u \in d.users : u.user_id = uid
  THEN (CHOOSE u \in d.users : u.user_id = uid).email
  ELSE ClerkEmail(uid)

\* C18: a token is single-use.  A successful acceptInvite finds the invite
\* pending, adds exactly one membership, of the caller with the invite's
\* role, and marks the invite accepted in the same step; an accepted invite
\* stays accepted; and an acceptInvite of an accepted token, also one that
\* ran its checks while the token was pending, fails and leaves the
\* memberships as they were.
C18_TokenSingleUse ==
  [][ /\ (Returns("acceptInvite") /\ last'.ok)
          => \E i \in InvitesOf(db, last'.args.token) :
               /\ i.status = "pending"
               /\ db.members \subseteq db'.members
               /\ db'.members \ db.members
                    = {[org_id |-> i.org_id, user_id |-> last'.caller, role |-> i.role]}
               /\ [i EXCEPT !.status = "accepted"] \in db'.invites
      /\ \A i \in db.invites :
            i.status = "accepted"
              => \A j \in db'.invites : j.token = i.token => j.status = "accepted"
      /\ ( /\ Returns("acceptInvite")
           /\ \E i \in InvitesOf(db, last'.args.token) : i.status = "accepted" )
          => /\ ~last'.ok
             /\ db'.members = db.members ]_vars

\* The second of two racing redemptions of one token fails.
C18_Witness ==
  /\ last.op = "acceptInvite"
  /\ last.err = "Unique constraint failed"
  /\ \E i \in InvitesOf(db, last.args.token) : i.status = "accepted"
  /\ Cardinality({m \in db.members : m.user_id = last.caller}) = 1

\* A later redemption of an accepted token fails.
C18_WitnessLater ==
  /\ last.op = "acceptInvite"
  /\ last.err = "Invalid invitation"
  /\ \E i \in InvitesOf(db, last.args.token) :
       /\ i.status = "accepted"
       /\ i.email = StoredEmail(db, last.caller)

\* C19: inviteEmployee sets expires_at to 24 hours after the time of the
\* call; an acceptInvite called after expires_at fails, creates no
\* membership and leaves a pending invite pending; and no redemption that
\* is called after expires_at gets past its checks.
C19_InviteExpires ==
  [][ /\ (Returns("inviteEmployee") /\ last'.ok)
          => /\ Cardinality(db'.invites \ db.invites) = 1
             /\ \A i \in db'.invites \ db.invites : i.expires_at = db.now + 24
      /\ \A i \in db.invites :
            ( /\ Returns("acceptInvite")
              /\ inflight' = inflight
              /\ i.token = Trim(last'.args.token)
              /\ db.now > i.expires_at )
              => /\ ~last'.ok
                 /\ db'.members = db.members
                 /\ db'.invites = db.invites
      /\ \A t \in inflight' \ inflight :
            t.tx.op = "acceptInvite" => db.now <= t.tx.invite.expires_at ]_vars

\* A pending invite is redeemed by its addressee after it expired.
C19_Witness ==
  /\ last.op = "acceptInvite"
  /\ last.err = "Invitation has expired"
  /\ \E i \in InvitesOf(db, last.args.token) :
       /\ i.status = "pending"
       /\ i.email = StoredEmail(db, last.caller)
       /\ db.now > i.expires_at

\* C20: acceptInvite succeeds only when the e-mail stored for the caller
\* equals the invite's e-mail character for character; when they differ it
\* fails, creates no membership and leaves the invites as they were.
C20_EmailMustMatch ==
  [][ \A i \in db.invites :
        (Returns("acceptInvite") /\ i.token = Trim(last'.args.token))
          => /\ last'.ok => i.email = StoredEmail(db', last'.caller)
             /\ i.email # StoredEmail(db, last'.caller)
                  => /\ ~last'.ok
                     /\ db'.members = db.members
                     /\ db'.invites = db.invites ]_vars

\* An invite sent to "A" is stored as "a" and refused to the principal
\* whose e-mail is "A".
C20_Witness ==
  /\ last.op = "acceptInvite"
  /\ last.err = "Email mismatch - invitation not for this user"
  /\ \E i \in InvitesOf(db, last.args.token) :
       /\ i.status = "pending"
       /\ ToLowerCase(StoredEmail(db, last.caller)) = i.email
       /\ StoredEmail(db, last.caller) # i.email

\* The invite is accepted by the principal whose e-mail is "a".
C20_WitnessAccepted ==
  /\ last.op = "acceptInvite"
  /\ last.ok
  /\ \E i \in InvitesOf(db, last.args.token) :
       i.status = "accepted" /\ i.email = StoredEmail(db, last.caller)

(***************************************************************************)
(* Invitations issued concurrently: the admin's inviteEmployee calls run   *)
(* their checks and their create as separate steps, invited principals     *)
(* redeem tokens, and the clock runs.                                      *)
(***************************************************************************)
NextInviteRace ==
  \/ DoCreateOrganization(Inviter, <<"a">>)
  \/ \E email \in InviteEmails, tid \in Tids :
       BeginInviteEmployee(Inviter, FirstId, email, "reader", tid)
  \/ FinishInviteEmployee
  \/ \E uid \in Principals, token \in IdStrs(MaxInvites) : DoAcceptInvite(uid, token)
  \/ Tick

SpecInviteRace == InitNoDeletes /\ [][NextInviteRace]_vars

\* The invites of one (organization, e-mail) pair that are pending and have
\* not expired.
ActiveInvites(d, orgId, email) ==
  {i \in d.invites :
     /\ i.org_id = orgId
     /\ i.email = email
     /\ i.status = "pending"
     /\ i.expires_at >= d.now}

\* The e-mail addresses of the members of an organization.
MemberEmails(d, orgId) ==
  {u.email : u \in {u \in d.users : MemberRows(d, orgId, u.user_id) # {}}}

\* C21: every (organization, e-mail) pair has at most one invite that is
\* pending and unexpired, and an inviteEmployee for the e-mail of a member
\* of the organization persists no invite.
C21_OneActiveInvite ==
  [][ /\ \A i \in db'.invites :
            Cardinality(ActiveInvites(db', i.org_id, i.email)) <= 1
      /\ ( /\ Returns("inviteEmployee")
           /\ ToLowerCase(Trim(last'.args.email)) \in MemberEmails(db, BigInt(last'.orgId)) )
          => db'.invites = db.invites ]_vars

(***************************************************************************)
(* The product listing cache: one principal's organization has a product   *)
(* and two warehouses; the principal calls every inventory action, each    *)
(* as its transaction and, once that committed, its invalidation and       *)
(* return; products requests are answered from the cache or read the       *)
(* database and store what they read.                                      *)
(***************************************************************************)

\* The start: the first organization has a product in its warehouse; the
\* second organization's addProduct timed out and left its warehouse.
ProductAndWarehouses ==
  LET d1 == createOrganization(EmptyDb, "u1", <<"a">>).db
      d2 == createOrganization(d1, "u1", <<"b">>).db
      d3 == addProduct(d2, "u1", <<"1">>, PlainProduct).db
  IN  addProductTx(d3, "u1", <<"2">>, PlainProduct, "stock").db

InitCache ==
  db = ProductAndWarehouses /\ last = [op |-> "none"] /\ inflight = {} /\ cache = {}

\* The product data of updateProduct: another SKU.
OtherSkuProduct == [PlainProduct EXCEPT !.sku = <<"b">>]

\* The data of updateProductDetails: another name.
NameDetails == [name |-> {<<"b">>}, sku |-> {}, price |-> {}]

\* The data of updateProduct: more stock.
MoreStockProduct == [PlainProduct EXCEPT !.stock = MaxQty]

\* A batch of two updates.
BatchOfTwo ==
  <<[id |-> FirstId, name |-> {<<"b">>}, sku |-> {}, stock |-> {}, price |-> {},
     latest |-> NoPrice],
    [id |-> FirstId, name |-> {}, sku |-> {}, stock |-> {0}, price |-> {},
     latest |-> NoPrice]>>

\* One inventory action runs at a time.
WriterInFlight == \E t \in inflight : t.tx.op \in WriterOps

NextCache ==
  \/ \E tid \in Tids :
       ~WriterInFlight /\ CommitAddProduct("u1", FirstId, OtherSkuProduct, tid)
  \/ \E tid \in Tids :
       ~WriterInFlight /\ CommitUpdateProduct("u1", FirstId, FirstId, MoreStockProduct, tid)
  \/ \E tid \in Tids : ~WriterInFlight /\ CommitDeleteProduct("u1", FirstId, FirstId, tid)
  \/ \E tid \in Tids :
       ~WriterInFlight /\ CommitBulkUpdateProducts("u1", FirstId, BatchOfTwo, tid)
  \/ \E tid \in Tids :
       ~WriterInFlight /\ CommitUpdateProductDetails("u1", FirstId, FirstId, NameDetails, tid)
  \/ \E tid \in Tids :
       ~WriterInFlight /\ CommitDeleteProductDetails("u1", FirstId, <<"2">>, tid)
  \/ \E tid \in Tids :
       ~WriterInFlight /\ CommitUpdateProductStock("u1", FirstId, FirstId, FirstId, 1, tid)
  \/ \E tid \in Tids :
       ~WriterInFlight /\ CommitTransferStock("u1", FirstId, FirstId, FirstId, <<"2">>, 1, tid)
  \/ InvalidateAndReturn("none")
  \/ \E uid \in {"u1", NoPrincipal} : DoGET(uid, FirstId)

SpecCache == InitCache /\ [][NextCache]_vars

\* C22: an inventory action that succeeds returns after its transaction
\* committed, in a later step that changes no row, and in that step calls
\* invalidateProducts exactly once, with its organization id (a batch of
\* two updates as well), so that the organization's listing is gone from
\* the cache when success is reported; an action that throws before it
\* commits calls it not at all and leaves the cache as it was; and nothing
\* else takes a listing out of the cache.
C22_InvalidatedOnceAfterCommit ==
  [][ /\ \A op \in WriterOps :
            Returns(op)
              => /\ last'.ok
                      => /\ \E t \in inflight \ inflight' : t.tx.op = op /\ t.tx.committed
                         /\ db' = db
                         /\ last'.invalidated = <<last'.orgId>>
                         /\ cache' = invalidateProducts(cache, last'.orgId)
                 /\ (~last'.ok /\ inflight' = inflight)
                      => /\ last'.invalidated = <<>>
                         /\ cache' = cache
      /\ \A e \in cache :
            CacheEntries(cache', e.key) = {}
              => /\ last'.op \in WriterOps
                 /\ last'.ok
                 /\ last'.orgId = e.key
                 /\ inflight' \subseteq inflight /\ inflight' # inflight ]_vars

\* A batch of two updates has returned success after one invalidation, and
\* the listing is out of the cache.
C22_Witness ==
  /\ last.op = "bulkUpdateProducts"
  /\ last.ok
  /\ Len(last.args.updates) = 2
  /\ last.invalidated = <<FirstId>>
  /\ CacheEntries(cache, FirstId) = {}

\* An action threw before committing and the cached listing is still there.
C22_WitnessFailed ==
  /\ last.op \in WriterOps
  /\ ~last.ok
  /\ last.err # CacheError
  /\ last.invalidated = <<>>
  /\ CacheEntries(cache, FirstId) # {}

\* The same with a cache that can fail: addProduct and updateProductStock,
\* whose invalidation goes through or is rejected.
NextCacheFault ==
  \/ \E tid \in Tids :
       ~WriterInFlight /\ CommitAddProduct("u1", FirstId, OtherSkuProduct, tid)
  \/ \E adjustment \in {-1, 1}, tid \in Tids :
       ~WriterInFlight
         /\ CommitUpdateProductStock("u1", FirstId, FirstId, FirstId, adjustment, tid)
  \/ \E fault \in CacheFaults : InvalidateAndReturn(fault)
  \/ \E uid \in {"u1", NoPrincipal} : DoGET(uid, FirstId)

SpecCacheFault == InitCache /\ [][NextCacheFault]_vars

\* C23: when the invalidation that follows a committed transaction fails,
\* the committed rows stay and the action still reports success.
C23_InvalidationFailureTolerated ==
  [][ \A t \in inflight \ inflight' :
        (t.tx.op \in WriterOps /\ t.tx.committed)
          => /\ db' = db
             /\ last'.op = t.tx.op
             /\ last'.ok ]_vars

(***************************************************************************)
(* Products requests next to inventory actions: a request that missed the  *)
(* cache reads the database in one step and stores what it read in a       *)
(* later one, while updateProduct and updateProductStock commit and        *)
(* invalidate.                                                             *)
(***************************************************************************)
ReaderInFlight == \E t \in inflight : t.tx.op = "GET"

NextCacheRace ==
  \/ \E tid \in Tids :
       ~WriterInFlight /\ CommitUpdateProduct("u1", FirstId, FirstId, MoreStockProduct, tid)
  \/ \E tid \in Tids :
       ~WriterInFlight /\ CommitUpdateProductStock("u1", FirstId, FirstId, FirstId, 1, tid)
  \/ InvalidateAndReturn("none")
  \/ \E uid \in {"u1", NoPrincipal} : DoGET(uid, FirstId)
  \/ \E tid \in Tids : ~ReaderInFlight /\ BeginGET("u1", FirstId, tid)
  \/ FinishGET

SpecCacheRace == InitCache /\ [][NextCacheRace]_vars

\* C29: a products request answered from the cache (X-Cache: HIT) returns
\* a listing of the database as it is, unless an inventory action of the
\* organization has committed and not yet returned; so once an action has
\* returned success no request is answered with a listing from before it.
C29_NoStaleHit ==
  [][ (Returns("GET") /\ last'.xcache = "HIT")
        => \/ last'.products \in Listings(db, last'.orgId)
           \/ \E t \in inflight : t.tx.op \in WriterOps /\ t.tx.orgId = last'.orgId ]_vars

(***************************************************************************)
(* Prices: products are added and have their price written by each of the  *)
(* actions that can write it, before and after a tick of the clock; the    *)
(* details of the first product are read.                                  *)
(***************************************************************************)
PriceInputs == {1, MaxQty}

\* The product data of addProduct and updateProduct.
PricedProducts == {[PlainProduct EXCEPT !.price = pr] : pr \in PriceInputs}

\* The data of updateProductDetails: a price, or nothing but the name.
PriceDetails == {[name |-> {}, sku |-> {}, price |-> {pr}] : pr \in PriceInputs} \cup {NameDetails}

\* The update list of bulkUpdateProducts: one item that sets the price.
PriceBulkUpdate(idStr, pr, latest) ==
  <<[id |-> idStr, name |-> {}, sku |-> {}, stock |-> {}, price |-> {pr}, latest |-> latest]>>

DoBulkUpdatePrice(uid, orgIdStr, idStr, pr) ==
  \E latest \in LatestChoices(db, idStr) :
    DoBulkUpdateProducts(uid, orgIdStr, PriceBulkUpdate(idStr, pr, latest))

NextPrice ==
  \/ DoCreateOrganization("u1", <<"a">>)
  \/ \E p \in {PlainProduct, OtherSkuProduct} : DoAddProduct("u1", FirstId, p)
  \/ \E p \in PricedProducts : DoUpdateProduct("u1", FirstId, FirstId, p)
  \/ \E pr \in PriceInputs : DoBulkUpdatePrice("u1", FirstId, FirstId, pr)
  \/ \E data \in PriceDetails : DoUpdateProductDetails("u1", FirstId, FirstId, data)
  \/ DoGetProductDetails("u1", FirstId, FirstId)
  \/ db.now < TickHours /\ Tick

SpecPrice == InitNoDeletes /\ [][NextPrice]_vars

\* The price rows of the product.
PricesOf(d, productId) == {x \in d.prices : x.product_id = productId}

\* The price rows of the product that have no valid_to.
OpenPrices(d, productId) == {x \in PricesOf(d, productId) : x.valid_to = NoDate}

\* C26: a successful updateProductDetails with a price sets the valid_to of
\* every price row of the product that had none and changes nothing else of
\* the rows there were; it adds one row, which has no valid_to and the price
\* given, so the history of the product is one row longer and has one open
\* row.  Without a price it leaves every price row as it was.  The price
\* rows of other products are never touched.
C26_CloseThenInsert ==
  [][ (last'.op = "updateProductDetails" /\ last'.ok)
        => LET productId == BigInt(last'.args.id)
               old == PricesOf(db, productId)
               new == PricesOf(db', productId)
               added == {y \in new : \A x \in old : x.price_id # y.price_id}
           IN  /\ db'.prices \ new = db.prices \ old
               /\ IF Given(last'.args.data.price)
                  THEN /\ \A x \in old :
                            \E y \in new :
                              /\ y.price_id = x.price_id
                              /\ y.retail_price = x.retail_price
                              /\ y.valid_from = x.valid_from
                              /\ y.valid_to # NoDate
                              /\ x.valid_to # NoDate => y.valid_to = x.valid_to
                       /\ Cardinality(new) = Cardinality(old) + 1
                       /\ Cardinality(added) = 1
                       /\ \A y \in added : /\ y.valid_to = NoDate
                                           /\ y.retail_price = Val(last'.args.data.price)
                       /\ OpenPrices(db', productId) = added
                  ELSE new = old ]_vars

\* updateProductDetails put a second price on a product: its history has a
\* closed row and an open row.
C26_Witness ==
  /\ last.op = "updateProductDetails"
  /\ last.ok
  /\ Given(last.args.data.price)
  /\ \E x, y \in PricesOf(db, BigInt(last.args.id)) :
       /\ x.valid_to # NoDate
       /\ y.valid_to = NoDate
       /\ x.retail_price # y.retail_price

\* updateProductDetails without a price renamed a product that has a price.
C26_WitnessNoPrice ==
  /\ last.op = "updateProductDetails"
  /\ last.ok
  /\ ~Given(last.args.data.price)
  /\ PricesOf(db, BigInt(last.args.id)) # {}

(***************************************************************************)
(* The whole system: one principal creates organizations and invites the   *)
(* other, who joins as a reader or a writer; both call every action.       *)
(***************************************************************************)

\* The update list of bulkUpdateProducts: the first product gets another name.
NameBulkUpdate ==
  <<[id |-> FirstId, name |-> {<<"b">>}, sku |-> {}, stock |-> {}, price |-> {},
     latest |-> NoPrice]>>

Next ==
  \/ DoCreateOrganization("u2", <<"a">>)
  \/ \E uid \in Principals : DoUpdateOrganization(uid, FirstId, <<"a", " ">>)
  \/ \E uid \in Principals : DoDeleteOrganization(uid, FirstId, TRUE)
  \/ \E uid \in Principals, role \in InvitedRoles :
       DoInviteEmployee(uid, FirstId, <<"a">>, role)
  \/ DoAcceptInvite("u1", FirstId)
  \/ \E uid \in Principals : DoAddProduct(uid, FirstId, PlainProduct)
  \/ \E uid \in Principals : DoUpdateProduct(uid, FirstId, FirstId, OtherSkuProduct)
  \/ \E uid \in Principals : DoDeleteProduct(uid, FirstId, FirstId)
  \/ \E uid \in Principals : DoBulkUpdateProducts(uid, FirstId, NameBulkUpdate)
  \/ \E uid \in Principals : DoUpdateProductDetails(uid, FirstId, FirstId, NameDetails)
  \/ \E uid \in Principals : DoDeleteProductDetails(uid, FirstId, FirstId)
  \/ \E uid \in Principals : DoUpdateProductStock(uid, FirstId, FirstId, FirstId, 1)
  \/ \E uid \in Principals : DoTransferStock(uid, FirstId, FirstId, FirstId, <<"2">>, 1)

Spec == Init /\ [][Next]_vars

\* The role of the caller in the organization: "admin" for its creator, the
\* role of the member row otherwise, none without one.
ResolvedRoles(d, uid, orgIdStr) ==
  IF ~BigIntOk(orgIdStr) THEN {}
  ELSE IF \E o \in d.orgs : o.org_id = BigInt(orgIdStr) /\ o.created_by = uid THEN {"admin"}
  ELSE {m.role : m \in {m \in d.members : m.org_id = BigInt(orgIdStr) /\ m.user_id = uid}}

AdminOnlyOps == {"updateOrganization", "deleteOrganization", "inviteEmployee"}

RequiredSet(op) ==
  IF op \in AdminOnlyOps THEN {"admin"} ELSE {"writer", "read-write", "admin"}

\* C3: a mutating operation whose caller's resolved role is not in the set
\* the operation requires fails, and no organization, invite, warehouse,
\* product, stock, price or ledger row is created, changed or deleted.
C3_DeniedChangesNothing ==
  [][ ( /\ last'.op \in AdminOnlyOps \cup WriterOps
        /\ ResolvedRoles(db, last'.caller, last'.orgId) \cap RequiredSet(last'.op) = {} )
        => /\ ~last'.ok
           /\ \A t \in {"orgs", "invites", "warehouses", "products", "stocks", "prices",
                         "movements"} : db'[t] = db[t] ]_vars

\* A writer is refused the forced delete of an organization that has a
\* product with a ledger row.
C3_Witness ==
  /\ last.op = "deleteOrganization"
  /\ last.err = "Only admins can delete organizations"
  /\ ResolvedRoles(db, last.caller, last.orgId) = {"writer"}
  /\ \E p \in db.products : p.org_id = BigInt(last.orgId)
  /\ db.movements # {}

\* C25: the ledger is append-only.  Every step keeps every ledger row as
\* it is and gives the rows it adds ids no row had; only updateProductStock
\* and transferStock add rows.
C25_LedgerAppendOnly ==
  [][ /\ db.movements \subseteq db'.movements
      /\ \A x \in db'.movements \ db.movements :
            /\ \A y \in db.movements : y.movement_id # x.movement_id
            /\ last'.op \in {"updateProductStock", "transferStock"} ]_vars

\* A product that has a ledger row was deleted, and the row is still there.
C25_Witness ==
  /\ last.op \in {"deleteProduct", "deleteProductDetails"}
  /\ last.ok
  /\ \E x \in db.movements : x.product_id = BigInt(last.args.id)

\* An organization whose product has a ledger row was deleted with force.
C25_WitnessOrganization ==
  /\ last.op = "deleteOrganization"
  /\ last.ok
  /\ db.movements # {}

(***************************************************************************)
(* Product deletion: the products of the first of two organizations get    *)
(* stock movements and orders and are deleted through either organization. *)
(***************************************************************************)
FirstTwoIds == {FirstId, <<"2">>}

NextProductDelete ==
  \/ \E name \in {<<"a">>, <<"b">>} : DoCreateOrganization("u1", name)
  \/ \E p \in {PlainProduct, OtherSkuProduct} : DoAddProduct("u1", FirstId, p)
  \/ DoUpdateProductStock("u1", FirstId, FirstId, FirstId, 1)
  \/ DoPlaceOrder
  \/ \E o, id \in FirstTwoIds : DoDeleteProduct("u1", o, id)
  \/ \E o, id \in FirstTwoIds : DoDeleteProductDetails("u1", o, id)

SpecProductDelete == InitNoDeletes /\ [][NextProductDelete]_vars

\* The product, stock and price rows of the product.
RowsOfProduct(d, productId) ==
  [products |-> {x \in d.products : x.product_id = productId},
   stocks |-> {x \in d.stocks : x.product_id = productId},
   prices |-> {x \in d.prices : x.product_id = productId}]

C27_WitnessDeleted ==
  /\ last.op \in {"deleteProduct", "deleteProductDetails"}
  /\ last.ok
  /\ db.stocks # {}
  /\ db.prices # {}

(***************************************************************************)
(* Two tenants: each principal has an organization of its own with one     *)
(* product in one warehouse; the first calls the inventory actions with    *)
(* the id of its own organization and the ids of either product and        *)
(* warehouse.                                                              *)
(***************************************************************************)
TwoTenants ==
  LET d1 == createOrganization(EmptyDb, "u1", <<"a">>).db
      d2 == createOrganization(d1, "u2", <<"a">>).db
      d3 == addProduct(d2, "u1", <<"1">>, PlainProduct).db
  IN  addProduct(d3, "u2", <<"2">>, PlainProduct).db

\* The data of updateProductDetails: a price.
MaxPriceDetails == [name |-> {}, sku |-> {}, price |-> {MaxQty}]

InitTenant == db = TwoTenants /\ last = [op |-> "none"] /\ inflight = {} /\ cache = {}

NextTenant ==
  \/ \E id \in FirstTwoIds : DoUpdateProduct("u1", FirstId, id, MoreStockProduct)
  \/ \E id \in FirstTwoIds : DoBulkUpdatePrice("u1", FirstId, id, MaxQty)
  \/ \E id \in FirstTwoIds : DoUpdateProductDetails("u1", FirstId, id, MaxPriceDetails)
  \/ \E id \in FirstTwoIds : DoDeleteProduct("u1", FirstId, id)
  \/ \E id \in FirstTwoIds : DoDeleteProductDetails("u1", FirstId, id)
  \/ \E id, w \in FirstTwoIds, adjustment \in {-1, 1} :
       DoUpdateProductStock("u1", FirstId, id, w, adjustment)
  \/ \E id \in FirstTwoIds : DoTransferStock("u1", FirstId, id, <<"2">>, FirstId, 1)

SpecTenant == InitTenant /\ [][NextTenant]_vars

\* The organizations in which the principal has no role.
ForeignOrgs(d, uid) == {o.org_id : o \in {o \in d.orgs : ResolvedRoles(d, uid, NatToStr(o.org_id)) = {}}}

\* The product, stock, price and ledger rows that belong to a product or a
\* warehouse of an organization in which the principal has no role.
ForeignRows(d, uid) ==
  LET products == {x \in d.products : x.org_id \in ForeignOrgs(d, uid)}
      warehouses == {x \in d.warehouses : x.org_id \in ForeignOrgs(d, uid)}
      theirs(x) == \/ x.product_id \in Ids(products, "product_id")
                   \/ x.warehouse_id \in Ids(warehouses, "warehouse_id")
  IN  [products |-> products,
       stocks |-> {x \in d.stocks : theirs(x)},
       prices |-> {x \in d.prices : x.product_id \in Ids(products, "product_id")},
       movements |-> {x \in d.movements : theirs(x)}]

InventoryOps ==
  {"updateProduct", "bulkUpdateProducts", "updateProductDetails", "deleteProduct",
   "deleteProductDetails", "updateProductStock", "transferStock"}

\* C28: no call of an inventory action creates, changes or deletes a
\* product, stock, price or ledger row that belongs to a product or a
\* warehouse of an organization in which the caller has no role.
C28_TenantIsolation ==
  [][ (last'.op \in InventoryOps /\ last'.caller # NoPrincipal)
        => ForeignRows(db', last'.caller) = ForeignRows(db, last'.caller) ]_vars

(***************************************************************************)
(* Price histories under concurrency.  The transaction of                  *)
(* updateProductDetails starts with tx.product.update, which locks the row *)
(* of the product until the transaction ends; updateProduct and            *)
(* bulkUpdateProducts start the same way, so the transactions that write   *)
(* the prices of one product wait for one another.                         *)
(***************************************************************************)

\* updateProductDetails up to the rows its updateMany finds open.
updateProductDetailsRead(d, uid, orgIdStr, idStr, data) ==
  LET r == updateProductDetails(d, uid, orgIdStr, idStr, data)
      g == Gate(d, uid, orgIdStr, WriterRoles, "Insufficient permissions to update products")
      d1 == getOrCreateUser(g.db, uid)
  IN  IF r.err # "" THEN r
      ELSE [db |-> d1, err |-> "",
            tx |-> [op |-> "updateProductDetails", caller |-> uid, orgId |-> orgIdStr,
                    args |-> [id |-> idStr, data |-> data],
                    open |-> Ids(OpenPrices(d1, BigInt(idStr)), "price_id")]]

\* updateProductDetails from the writes of its transaction on.
updateProductDetailsWrite(d, t) ==
  LET productId == BigInt(t.args.id)
      data == t.args.data
      trimmed(f) == IF Given(f) THEN {Trim(Val(f))} ELSE {}
      d2 == UpdateProductRow(d, productId, trimmed(data.name), trimmed(data.sku))
      closed == [d2 EXCEPT !.prices = { IF x.price_id \in t.open /\ x.valid_to = NoDate
                                        THEN [x EXCEPT !.valid_to = d.now] ELSE x : x \in @ }]
  IN  [db |-> IF Given(data.price) THEN CreatePrice(closed, productId, Val(data.price)) ELSE d2,
       err |-> ""]

\* A variant in which no transaction waits for another.
NeverLocked(productId) == FALSE

\* A transaction that has not ended holds the lock on the row of the product.
ProductLocked(productId) ==
  \E t \in inflight : t.tx.op = "updateProductDetails" /\ BigInt(t.tx.args.id) = productId

BeginUpdateProductDetails(uid, orgIdStr, idStr, data, tid) ==
  /\ BigIntOk(idStr)
  /\ ~ProductLocked(BigInt(idStr))
  /\ Begin(updateProductDetailsRead(db, uid, orgIdStr, idStr, data), tid)

FinishUpdateProductDetails ==
  \E t \in inflight :
    /\ t.tx.op = "updateProductDetails"
    /\ db.nextId.price <= MaxPrices
    /\ Finish(t, updateProductDetailsWrite(db, t.tx))

\* The start: an organization with one product.
OneProduct ==
  addProduct(createOrganization(EmptyDb, "u1", <<"a">>).db, "u1", <<"1">>, PlainProduct).db

InitPriceRace == db = OneProduct /\ last = [op |-> "none"] /\ inflight = {} /\ cache = {}

NextPriceRace ==
  \/ DoAddProduct("u1", FirstId, OtherSkuProduct)
  \/ ~ProductLocked(BigInt(FirstId)) /\ DoUpdateProduct("u1", FirstId, FirstId, MoreStockProduct)
  \/ ~ProductLocked(BigInt(FirstId)) /\ DoBulkUpdatePrice("u1", FirstId, FirstId, MaxQty)
  \/ \E id \in FirstTwoIds, tid \in Tids :
       BeginUpdateProductDetails("u1", FirstId, id, MaxPriceDetails, tid)
  \/ FinishUpdateProductDetails
  \/ DoGetProductDetails("u1", FirstId, FirstId)
  \/ db.now < TickHours /\ Tick

SpecPriceRace == InitPriceRace /\ [][NextPriceRace]_vars

C30_WitnessConcurrent ==
  \E t1, t2 \in inflight :
    /\ t1.tid # t2.tid
    /\ Given(t1.tx.args.data.price)
    /\ Given(t2.tx.args.data.price)

====
